---- MODULE Spec2Model ----
(***************************************************************************)
(* A model of the PromQL query engine of grafana-agent (metric type        *)
(* classifier, query generator, query enhancer, query selector) and of     *)
(* the generate_promql_queries skill handler that drives it.               *)
(*                                                                         *)
(* Go strings are TLA+ strings; the functions of package strings that the  *)
(* code uses are defined below on them, character by character.            *)
(***************************************************************************)
EXTENDS Integers, Sequences, FiniteSets, TLC

(***************************************************************************)
(* Package strings                                                         *)
(***************************************************************************)

\* The substring of s at 0-based offset i with length n (Go's s[i:i+n]).
Slice(s, i, n) == SubSeq(s, i + 1, i + n)

\* strings.HasPrefix
HasPrefix(s, prefix) ==
    /\ Len(prefix) <= Len(s)
    /\ Slice(s, 0, Len(prefix)) = prefix

\* strings.HasSuffix
HasSuffix(s, suffix) ==
    /\ Len(suffix) <= Len(s)
    /\ Slice(s, Len(s) - Len(suffix), Len(suffix)) = suffix

\* strings.TrimSuffix: s without the trailing suffix, removed at most once.
TrimSuffix(s, suffix) ==
    IF HasSuffix(s, suffix) THEN Slice(s, 0, Len(s) - Len(suffix)) ELSE s

\* strings.Contains (case-sensitive; the empty substring is everywhere).
Contains(s, substr) ==
    \E i \in 0..(Len(s) - Len(substr)) : Slice(s, i, Len(substr)) = substr

\* strings.Index: the 0-based offset of the first occurrence, or -1.
Index(s, substr) ==
    IF Contains(s, substr)
    THEN CHOOSE i \in 0..(Len(s) - Len(substr)) :
            /\ Slice(s, i, Len(substr)) = substr
            /\ \A j \in 0..(i - 1) : Slice(s, j, Len(substr)) # substr
    ELSE -1

\* strings.ReplaceAll: the non-overlapping occurrences of old, leftmost
\* first, replaced by new; an empty old matches before every character and
\* at the end.
RECURSIVE ReplaceFrom(_, _, _)
ReplaceFrom(s, old, new) ==
    IF Len(s) < Len(old) THEN s
    ELSE IF Slice(s, 0, Len(old)) = old
         THEN new \o ReplaceFrom(Slice(s, Len(old), Len(s) - Len(old)), old, new)
         ELSE Slice(s, 0, 1) \o ReplaceFrom(Slice(s, 1, Len(s) - 1), old, new)

RECURSIVE Interleave(_, _)
Interleave(s, new) ==
    IF s = "" THEN new
    ELSE new \o Slice(s, 0, 1) \o Interleave(Slice(s, 1, Len(s) - 1), new)

ReplaceAll(s, old, new) ==
    IF old = "" THEN Interleave(s, new) ELSE ReplaceFrom(s, old, new)

\* strings.Count: the number of non-overlapping occurrences of substr
\* (one more than the length of s for the empty substr).
RECURSIVE CountFrom(_, _)
CountFrom(s, substr) ==
    IF Len(s) < Len(substr) THEN 0
    ELSE IF Slice(s, 0, Len(substr)) = substr
         THEN 1 + CountFrom(Slice(s, Len(substr), Len(s) - Len(substr)), substr)
         ELSE CountFrom(Slice(s, 1, Len(s) - 1), substr)

Count(s, substr) ==
    IF substr = "" THEN Len(s) + 1 ELSE CountFrom(s, substr)

\* Whether the one-character string c is one of the characters of cutset.
InCutset(c, cutset) == \E i \in 0..(Len(cutset) - 1) : Slice(cutset, i, 1) = c

\* strings.Trim: s without its leading and trailing characters of cutset.
RECURSIVE TrimLeft(_, _)
TrimLeft(s, cutset) ==
    IF s # "" /\ InCutset(Slice(s, 0, 1), cutset)
    THEN TrimLeft(Slice(s, 1, Len(s) - 1), cutset)
    ELSE s

RECURSIVE TrimRight(_, _)
TrimRight(s, cutset) ==
    IF s # "" /\ InCutset(Slice(s, Len(s) - 1, 1), cutset)
    THEN TrimRight(Slice(s, 0, Len(s) - 1), cutset)
    ELSE s

Trim(s, cutset) == TrimRight(TrimLeft(s, cutset), cutset)

\* strings.FieldsFunc with the predicate "the character is one of seps":
\* the maximal runs of non-separator characters, in order.  cur is the
\* field being read.
RECURSIVE FieldsFrom(_, _, _)
FieldsFrom(s, seps, cur) ==
    IF s = "" THEN (IF cur = "" THEN <<>> ELSE <<cur>>)
    ELSE IF InCutset(Slice(s, 0, 1), seps)
         THEN (IF cur = "" THEN <<>> ELSE <<cur>>)
                 \o FieldsFrom(Slice(s, 1, Len(s) - 1), seps, "")
         ELSE FieldsFrom(Slice(s, 1, Len(s) - 1), seps, cur \o Slice(s, 0, 1))

FieldsFunc(s, seps) == FieldsFrom(s, seps, "")

\* strings.ToLower on the ASCII letters.
UpperLetters == "ABCDEFGHIJKLMNOPQRSTUVWXYZ"
LowerLetters == "abcdefghijklmnopqrstuvwxyz"

LowerChar(c) ==
    IF InCutset(c, UpperLetters)
    THEN Slice(LowerLetters, Index(UpperLetters, c), 1)
    ELSE c

RECURSIVE ToLower(_)
ToLower(s) ==
    IF s = "" THEN ""
    ELSE LowerChar(Slice(s, 0, 1)) \o ToLower(Slice(s, 1, Len(s) - 1))

(***************************************************************************)
(* Package promql: types                                                   *)
(***************************************************************************)

MetricTypeCounter == "counter"
MetricTypeGauge == "gauge"
MetricTypeHistogram == "histogram"
MetricTypeSummary == "summary"
MetricTypeUnknown == "unknown"

\* type MetricInfo struct
MetricInfo(name, type, help, labels) ==
    [Name |-> name, Type |-> type, Help |-> help, Labels |-> labels]

\* type QuerySuggestion struct
QuerySuggestion(query, description, visualizationType, yAxisLabel) ==
    [Query |-> query, Description |-> description,
     VisualizationType |-> visualizationType, YAxisLabel |-> yAxisLabel]

(***************************************************************************)
(* Package promql: metric type classifier and query selector               *)
(***************************************************************************)

\* inferMetricType with the histogram rule tested before the counter rule.
inferMetricType_HistogramFirst(metricName) ==
    IF \/ Contains(metricName, "_bucket")
       \/ Contains(metricName, "_duration")
       \/ Contains(metricName, "_latency")
    THEN MetricTypeHistogram
    ELSE IF \/ HasSuffix(metricName, "_total")
            \/ Contains(metricName, "_count")
            \/ Contains(metricName, "requests")
            \/ Contains(metricName, "errors")
    THEN MetricTypeCounter
    ELSE IF \/ Contains(metricName, "size")
            \/ Contains(metricName, "usage")
            \/ Contains(metricName, "memory")
            \/ Contains(metricName, "cpu")
    THEN MetricTypeGauge
    ELSE MetricTypeUnknown

\* The first rule whose substring tests match decides the type.
inferMetricType(metricName) ==
    IF \/ HasSuffix(metricName, "_total")
       \/ Contains(metricName, "_count")
       \/ Contains(metricName, "requests")
       \/ Contains(metricName, "errors")
    THEN MetricTypeCounter
    ELSE IF \/ Contains(metricName, "_bucket")
            \/ Contains(metricName, "_duration")
            \/ Contains(metricName, "_latency")
    THEN MetricTypeHistogram
    ELSE IF \/ Contains(metricName, "size")
            \/ Contains(metricName, "usage")
            \/ Contains(metricName, "memory")
            \/ Contains(metricName, "cpu")
    THEN MetricTypeGauge
    ELSE MetricTypeUnknown

\* getBestQuery returning the last element instead of the first.
getBestQuery_Last(suggestions) ==
    IF Len(suggestions) = 0
    THEN QuerySuggestion("up", "Default query", "timeseries", "value")
    ELSE suggestions[Len(suggestions)]

getBestQuery(suggestions) ==
    IF Len(suggestions) = 0
    THEN QuerySuggestion("up", "Default query", "timeseries", "value")
    ELSE suggestions[1]

(***************************************************************************)
(* Package promql: query generator                                         *)
(***************************************************************************)

\* The label test without its prefix check.
EligibleLabel_NameOnly(label) == label # "__name__"

\* The label test of the generators' loops:
\* label != "__name__" && !strings.HasPrefix(label, "__")
EligibleLabel(label) == label # "__name__" /\ ~HasPrefix(label, "__")

\* The loop of generateCounterQueries over metricInfo.Labels.
RECURSIVE CounterLabelQueries(_, _)
CounterLabelQueries(metricName, labels) ==
    IF labels = <<>> THEN <<>>
    ELSE (IF EligibleLabel(Head(labels))
          THEN << QuerySuggestion(
                    "sum by (" \o Head(labels) \o ") (rate(" \o metricName \o "[5m]))",
                    "Rate per second grouped by " \o Head(labels),
                    "timeseries", "per second") >>
          ELSE <<>>)
         \o CounterLabelQueries(metricName, Tail(labels))

generateCounterQueries(metricInfo) ==
    << QuerySuggestion("rate(" \o metricInfo.Name \o "[5m])",
                       "Rate per second over 5 minutes", "timeseries", "per second"),
       QuerySuggestion("increase(" \o metricInfo.Name \o "[1h])",
                       "Total increase over 1 hour", "timeseries", "total") >>
    \o (IF Len(metricInfo.Labels) > 0
        THEN CounterLabelQueries(metricInfo.Name, metricInfo.Labels)
        ELSE <<>>)

\* The loop of generateGaugeQueries over metricInfo.Labels.
RECURSIVE GaugeLabelQueries(_, _)
GaugeLabelQueries(metricName, labels) ==
    IF labels = <<>> THEN <<>>
    ELSE (IF EligibleLabel(Head(labels))
          THEN << QuerySuggestion(
                    "avg by (" \o Head(labels) \o ") (" \o metricName \o ")",
                    "Average grouped by " \o Head(labels),
                    "timeseries", "avg value") >>
          ELSE <<>>)
         \o GaugeLabelQueries(metricName, Tail(labels))

\* generateGaugeQueries that adds the aggregates only when some label can be
\* grouped by.
generateGaugeQueries_EligibleOnly(metricInfo) ==
    << QuerySuggestion(metricInfo.Name, "Current value", "timeseries", "value"),
       QuerySuggestion("avg_over_time(" \o metricInfo.Name \o "[1h])",
                       "Average over 1 hour", "timeseries", "avg value") >>
    \o (IF GaugeLabelQueries(metricInfo.Name, metricInfo.Labels) # <<>>
        THEN << QuerySuggestion("avg(" \o metricInfo.Name \o ")",
                                "Average across all instances", "stat", "avg value"),
                QuerySuggestion("max(" \o metricInfo.Name \o ")",
                                "Maximum value", "stat", "max value"),
                QuerySuggestion("min(" \o metricInfo.Name \o ")",
                                "Minimum value", "stat", "min value") >>
             \o GaugeLabelQueries(metricInfo.Name, metricInfo.Labels)
        ELSE <<>>)

generateGaugeQueries(metricInfo) ==
    << QuerySuggestion(metricInfo.Name, "Current value", "timeseries", "value"),
       QuerySuggestion("avg_over_time(" \o metricInfo.Name \o "[1h])",
                       "Average over 1 hour", "timeseries", "avg value") >>
    \o (IF Len(metricInfo.Labels) > 0
        THEN << QuerySuggestion("avg(" \o metricInfo.Name \o ")",
                                "Average across all instances", "stat", "avg value"),
                QuerySuggestion("max(" \o metricInfo.Name \o ")",
                                "Maximum value", "stat", "max value"),
                QuerySuggestion("min(" \o metricInfo.Name \o ")",
                                "Minimum value", "stat", "min value") >>
             \o GaugeLabelQueries(metricInfo.Name, metricInfo.Labels)
        ELSE <<>>)

\* baseName with the suffixes removed in the order _sum, _count, _bucket.
HistogramBaseName_SumFirst(name) ==
    TrimSuffix(TrimSuffix(TrimSuffix(name, "_sum"), "_count"), "_bucket")

\* baseName of generateHistogramQueries.
HistogramBaseName(name) ==
    TrimSuffix(TrimSuffix(TrimSuffix(name, "_bucket"), "_count"), "_sum")

generateHistogramQueries(metricInfo) ==
    LET baseName == HistogramBaseName(metricInfo.Name) IN
    << QuerySuggestion("histogram_quantile(0.50, rate(" \o baseName \o "_bucket[5m]))",
                       "50th percentile (median) over 5 minutes", "timeseries", "duration"),
       QuerySuggestion("histogram_quantile(0.95, rate(" \o baseName \o "_bucket[5m]))",
                       "95th percentile over 5 minutes", "timeseries", "duration"),
       QuerySuggestion("histogram_quantile(0.99, rate(" \o baseName \o "_bucket[5m]))",
                       "99th percentile over 5 minutes", "timeseries", "duration"),
       QuerySuggestion("rate(" \o baseName \o "_count[5m])",
                       "Request rate (requests per second)", "timeseries", "requests/sec"),
       QuerySuggestion("rate(" \o baseName \o "_sum[5m]) / rate(" \o baseName \o "_count[5m])",
                       "Average duration", "timeseries", "avg duration") >>

\* baseName of generateSummaryQueries.
SummaryBaseName(name) == TrimSuffix(TrimSuffix(name, "_count"), "_sum")

\* The quantiles generateSummaryQueries tries, in its order.
SummaryQuantiles == <<"0.5", "0.9", "0.95", "0.99">>

\* The quantile loop without its guard.
SummaryHasQuantiles_Always(name) == TRUE

\* The guard of the quantile loop of generateSummaryQueries.
SummaryHasQuantiles(name) == Contains(name, "_count") \/ Contains(name, "_sum")

generateSummaryQueries(metricInfo) ==
    LET baseName == SummaryBaseName(metricInfo.Name) IN
    << QuerySuggestion("rate(" \o baseName \o "_count[5m])",
                       "Request rate (requests per second)", "timeseries", "requests/sec"),
       QuerySuggestion("rate(" \o baseName \o "_sum[5m]) / rate(" \o baseName \o "_count[5m])",
                       "Average value", "timeseries", "avg value") >>
    \o (IF SummaryHasQuantiles(metricInfo.Name)
        THEN [i \in 1..Len(SummaryQuantiles) |->
                QuerySuggestion(baseName \o "{quantile=\"" \o SummaryQuantiles[i] \o "\"}",
                                SummaryQuantiles[i] \o " quantile", "timeseries", "value")]
        ELSE <<>>)

\* generateDefaultQueries without the fallback to the counter generator.
generateDefaultQueries_NoFallback(metricInfo) ==
    << QuerySuggestion(metricInfo.Name, "Raw metric value", "timeseries", "value"),
       QuerySuggestion("rate(" \o metricInfo.Name \o "[5m])",
                       "Rate of change over 5 minutes", "timeseries", "per second") >>

generateDefaultQueries(metricInfo) ==
    IF \/ HasSuffix(metricInfo.Name, "_total")
       \/ Contains(metricInfo.Name, "_count")
       \/ Contains(metricInfo.Name, "requests")
       \/ Contains(metricInfo.Name, "errors")
    THEN generateCounterQueries(metricInfo)
    ELSE << QuerySuggestion(metricInfo.Name, "Raw metric value", "timeseries", "value"),
            QuerySuggestion("rate(" \o metricInfo.Name \o "[5m])",
                            "Rate of change over 5 minutes", "timeseries", "per second") >>

\* generateQueries whose switch has no default case: the nil slice for any
\* type outside the four named ones.
generateQueries_NoDefault(metricInfo) ==
    CASE metricInfo.Type = MetricTypeCounter -> generateCounterQueries(metricInfo)
      [] metricInfo.Type = MetricTypeGauge -> generateGaugeQueries(metricInfo)
      [] metricInfo.Type = MetricTypeHistogram -> generateHistogramQueries(metricInfo)
      [] metricInfo.Type = MetricTypeSummary -> generateSummaryQueries(metricInfo)
      [] OTHER -> <<>>

generateQueries(metricInfo) ==
    CASE metricInfo.Type = MetricTypeCounter -> generateCounterQueries(metricInfo)
      [] metricInfo.Type = MetricTypeGauge -> generateGaugeQueries(metricInfo)
      [] metricInfo.Type = MetricTypeHistogram -> generateHistogramQueries(metricInfo)
      [] metricInfo.Type = MetricTypeSummary -> generateSummaryQueries(metricInfo)
      [] OTHER -> generateDefaultQueries(metricInfo)

(***************************************************************************)
(* Package promql: query enhancer (llmQueryEnhancer; the exported          *)
(* LLMQueryEnhancer of llm_assistance.go has the same code)                *)
(***************************************************************************)

extractPercentile(query) ==
    IF Contains(query, "0.50") THEN "50th"
    ELSE IF Contains(query, "0.95") THEN "95th"
    ELSE IF Contains(query, "0.99") THEN "99th"
    ELSE IF Contains(query, "0.90") THEN "90th"
    ELSE ""

extractMetricNameFromHistogramQuery(query) ==
    IF Contains(query, "_bucket")
    THEN LET bucketIndex == Index(query, "_bucket")
             beforeBucket == Slice(query, 0, bucketIndex)
             words == FieldsFunc(beforeBucket, " (,)")
         IN IF Len(words) = 0 THEN ""
            ELSE Trim(words[Len(words)], "()[], ")
    ELSE ""

\* enhanceDescription with the percentile rule read before the resource and
\* performance rules.
enhanceDescription_PercentileFirst(metricInfo, suggestion) ==
    LET baseName == metricInfo.Name
        baseDesc == suggestion.Description
    IN
    IF Contains(baseName, "http") /\ Contains(suggestion.Query, "rate(")
    THEN "HTTP " \o ToLower(baseDesc)
    ELSE IF /\ (Contains(baseName, "error") \/ Contains(baseName, "fail"))
            /\ Contains(suggestion.Query, "rate(")
    THEN "Error " \o ToLower(baseDesc)
    ELSE IF /\ Contains(suggestion.Query, "histogram_quantile")
            /\ extractPercentile(suggestion.Query) # ""
    THEN extractPercentile(suggestion.Query) \o " percentile ("
            \o extractPercentile(suggestion.Query) \o " of requests are faster)"
    ELSE IF Contains(baseName, "memory") \/ Contains(baseName, "cpu")
    THEN "Resource Usage: " \o baseDesc
    ELSE IF Contains(baseName, "latency") \/ Contains(baseName, "duration")
    THEN "Performance: " \o baseDesc
    ELSE IF Contains(suggestion.Query, "increase(")
    THEN "Total " \o ToLower(baseDesc)
    ELSE baseDesc

enhanceDescription(metricInfo, suggestion) ==
    LET baseName == metricInfo.Name
        baseDesc == suggestion.Description
    IN
    IF Contains(baseName, "http") /\ Contains(suggestion.Query, "rate(")
    THEN "HTTP " \o ToLower(baseDesc)
    ELSE IF /\ (Contains(baseName, "error") \/ Contains(baseName, "fail"))
            /\ Contains(suggestion.Query, "rate(")
    THEN "Error " \o ToLower(baseDesc)
    ELSE IF Contains(baseName, "memory") \/ Contains(baseName, "cpu")
    THEN "Resource Usage: " \o baseDesc
    ELSE IF Contains(baseName, "latency") \/ Contains(baseName, "duration")
    THEN "Performance: " \o baseDesc
    ELSE IF /\ Contains(suggestion.Query, "histogram_quantile")
            /\ extractPercentile(suggestion.Query) # ""
    THEN extractPercentile(suggestion.Query) \o " percentile ("
            \o extractPercentile(suggestion.Query) \o " of requests are faster)"
    ELSE IF Contains(suggestion.Query, "increase(")
    THEN "Total " \o ToLower(baseDesc)
    ELSE baseDesc

\* The first rewrite of optimizeQuery without the test on the metric's name.
OptimizeRange_AnyMetric(metricInfo, query) ==
    IF Contains(query, "rate(") /\ Contains(query, "[5m]")
    THEN ReplaceAll(query, "[5m]", "[2m]")
    ELSE query

\* The first rewrite of optimizeQuery: [5m] -> [2m] for request/http metrics.
OptimizeRange(metricInfo, query) ==
    IF /\ Contains(query, "rate(") /\ Contains(query, "[5m]")
       /\ (Contains(metricInfo.Name, "request") \/ Contains(metricInfo.Name, "http"))
    THEN ReplaceAll(query, "[5m]", "[2m]")
    ELSE query

\* The second rewrite of optimizeQuery replaces "rate(" by "rate(".
OptimizeErrorRate(metricInfo, query, optimized) ==
    IF /\ Contains(metricInfo.Name, "error") /\ Contains(query, "rate(")
       /\ ~Contains(query, "sum")
    THEN ReplaceAll(optimized, "rate(", "rate(")
    ELSE optimized

\* The third rewrite of optimizeQuery: sum(rate(..._bucket[..])) by (le).
\* Its guards read the original query, its substitutions the optimized one.
OptimizeHistogram(query, optimized) ==
    IF /\ Contains(query, "histogram_quantile")
       /\ ~Contains(query, "sum(rate(") /\ ~Contains(query, "sum by")
       /\ extractMetricNameFromHistogramQuery(query) # ""
    THEN LET metricName == extractMetricNameFromHistogramQuery(query)
             summed == ReplaceAll(optimized,
                                  "rate(" \o metricName \o "_bucket[",
                                  "sum(rate(" \o metricName \o "_bucket[")
         IN IF Count(summed, "sum(") = 1
            THEN ReplaceAll(summed, "]))", "])) by (le)")
            ELSE summed
    ELSE optimized

optimizeQuery(metricInfo, query) ==
    OptimizeHistogram(query,
        OptimizeErrorRate(metricInfo, query, OptimizeRange(metricInfo, query)))

\* suggestVisualizationType with the test on the metric's name read first.
suggestVisualizationType_NameFirst(metricInfo, suggestion) ==
    IF Contains(metricInfo.Name, "ratio") \/ Contains(metricInfo.Name, "percent")
    THEN "gauge"
    ELSE IF Contains(suggestion.Query, "histogram_quantile") THEN "timeseries"
    ELSE IF Contains(suggestion.Query, "avg(") /\ ~Contains(suggestion.Query, "over_time")
    THEN "stat"
    ELSE IF Contains(suggestion.Query, "max(") \/ Contains(suggestion.Query, "min(")
    THEN "stat"
    ELSE suggestion.VisualizationType

suggestVisualizationType(metricInfo, suggestion) ==
    IF Contains(suggestion.Query, "histogram_quantile") THEN "timeseries"
    ELSE IF Contains(suggestion.Query, "avg(") /\ ~Contains(suggestion.Query, "over_time")
    THEN "stat"
    ELSE IF Contains(suggestion.Query, "max(") \/ Contains(suggestion.Query, "min(")
    THEN "stat"
    ELSE IF Contains(metricInfo.Name, "ratio") \/ Contains(metricInfo.Name, "percent")
    THEN "gauge"
    ELSE suggestion.VisualizationType

\* generateContextualQueries with the alert on errors given for every type.
generateContextualQueries_AnyType(metricInfo) ==
    LET metricName == metricInfo.Name IN
    (IF /\ (Contains(metricName, "http_request") \/ Contains(metricName, "request"))
        /\ metricInfo.Type = MetricTypeCounter
     THEN << QuerySuggestion(
               "rate(" \o metricName \o "{status=~\"5..\"}[5m]) / rate(" \o metricName \o "[5m])",
               "Error rate (5xx responses)", "timeseries", "error ratio"),
             QuerySuggestion(
               "rate(" \o metricName \o "{status=~\"2..\"}[5m]) / rate(" \o metricName \o "[5m])",
               "Success rate (2xx responses)", "stat", "success ratio") >>
     ELSE <<>>)
    \o (IF Contains(metricName, "error") \/ Contains(metricName, "fail")
        THEN << QuerySuggestion("increase(" \o metricName \o "[1h]) > 10",
                                "High error count alert (>10/hour)", "table", "count") >>
        ELSE <<>>)
    \o (IF Contains(metricName, "cpu") /\ metricInfo.Type = MetricTypeGauge
        THEN << QuerySuggestion("(" \o metricName \o " > 80)",
                                "High CPU usage alert (>80%)", "table", "percent") >>
        ELSE <<>>)
    \o (IF Contains(metricName, "memory") /\ metricInfo.Type = MetricTypeGauge
        THEN << QuerySuggestion("(" \o metricName \o " / 1024 / 1024 / 1024)",
                                "Memory usage in GB", "timeseries", "GB") >>
        ELSE <<>>)

generateContextualQueries(metricInfo) ==
    LET metricName == metricInfo.Name IN
    (IF /\ (Contains(metricName, "http_request") \/ Contains(metricName, "request"))
        /\ metricInfo.Type = MetricTypeCounter
     THEN << QuerySuggestion(
               "rate(" \o metricName \o "{status=~\"5..\"}[5m]) / rate(" \o metricName \o "[5m])",
               "Error rate (5xx responses)", "timeseries", "error ratio"),
             QuerySuggestion(
               "rate(" \o metricName \o "{status=~\"2..\"}[5m]) / rate(" \o metricName \o "[5m])",
               "Success rate (2xx responses)", "stat", "success ratio") >>
     ELSE <<>>)
    \o (IF /\ metricInfo.Type = MetricTypeCounter
           /\ (Contains(metricName, "error") \/ Contains(metricName, "fail"))
        THEN << QuerySuggestion("increase(" \o metricName \o "[1h]) > 10",
                                "High error count alert (>10/hour)", "table", "count") >>
        ELSE <<>>)
    \o (IF Contains(metricName, "cpu") /\ metricInfo.Type = MetricTypeGauge
        THEN << QuerySuggestion("(" \o metricName \o " > 80)",
                                "High CPU usage alert (>80%)", "table", "percent") >>
        ELSE <<>>)
    \o (IF Contains(metricName, "memory") /\ metricInfo.Type = MetricTypeGauge
        THEN << QuerySuggestion("(" \o metricName \o " / 1024 / 1024 / 1024)",
                                "Memory usage in GB", "timeseries", "GB") >>
        ELSE <<>>)

\* enhanceQuery building a fresh struct from the three computed fields, the
\* y-axis label left at its zero value.
enhanceQuery_DropAxis(metricInfo, suggestion) ==
    QuerySuggestion(optimizeQuery(metricInfo, suggestion.Query),
                    enhanceDescription(metricInfo, suggestion),
                    suggestVisualizationType(metricInfo, suggestion), "")

\* enhanced := suggestion copies the struct; three of its fields are then
\* assigned, each computed from the original suggestion.
enhanceQuery(metricInfo, suggestion) ==
    [suggestion EXCEPT
        !.Description = enhanceDescription(metricInfo, suggestion),
        !.Query = optimizeQuery(metricInfo, suggestion.Query),
        !.VisualizationType = suggestVisualizationType(metricInfo, suggestion)]

\* enhanceQueries with the contextual queries put before the enhanced copies.
enhanceQueries_ContextFirst(metricInfo, suggestions) ==
    generateContextualQueries(metricInfo)
    \o [i \in 1..Len(suggestions) |-> enhanceQuery(metricInfo, suggestions[i])]

enhanceQueries(metricInfo, suggestions) ==
    [i \in 1..Len(suggestions) |-> enhanceQuery(metricInfo, suggestions[i])]
    \o generateContextualQueries(metricInfo)

(***************************************************************************)
(* Package promql: the exported query enhancer (LLMQueryEnhancer of        *)
(* internal/promql/llm_assistance.go), translated from its own file        *)
(***************************************************************************)

promql_extractPercentile(query) ==
    IF Contains(query, "0.50") THEN "50th"
    ELSE IF Contains(query, "0.95") THEN "95th"
    ELSE IF Contains(query, "0.99") THEN "99th"
    ELSE IF Contains(query, "0.90") THEN "90th"
    ELSE ""

promql_extractMetricNameFromHistogramQuery(query) ==
    IF ~Contains(query, "_bucket") THEN ""
    ELSE LET words == FieldsFunc(Slice(query, 0, Index(query, "_bucket")), " (,)")
         IN IF Len(words) = 0 THEN "" ELSE Trim(words[Len(words)], "()[], ")

LLMQueryEnhancer_enhanceDescription(metricInfo, suggestion) ==
    LET baseName == metricInfo.Name
        baseDesc == suggestion.Description
        percentile == promql_extractPercentile(suggestion.Query)
    IN CASE Contains(baseName, "http") /\ Contains(suggestion.Query, "rate(") ->
                "HTTP " \o ToLower(baseDesc)
         [] /\ ~(Contains(baseName, "http") /\ Contains(suggestion.Query, "rate("))
            /\ (Contains(baseName, "error") \/ Contains(baseName, "fail"))
            /\ Contains(suggestion.Query, "rate(") ->
                "Error " \o ToLower(baseDesc)
         [] OTHER ->
                IF Contains(baseName, "memory") \/ Contains(baseName, "cpu")
                THEN "Resource Usage: " \o baseDesc
                ELSE IF Contains(baseName, "latency") \/ Contains(baseName, "duration")
                THEN "Performance: " \o baseDesc
                ELSE IF Contains(suggestion.Query, "histogram_quantile") /\ percentile # ""
                THEN percentile \o " percentile (" \o percentile \o " of requests are faster)"
                ELSE IF Contains(suggestion.Query, "increase(")
                THEN "Total " \o ToLower(baseDesc)
                ELSE baseDesc

\* optimized is assigned up to three times; every guard reads query, every
\* substitution reads optimized.
LLMQueryEnhancer_optimizeQuery(metricInfo, query) ==
    LET optimized0 == query
        optimized1 ==
            IF /\ Contains(query, "rate(") /\ Contains(query, "[5m]")
               /\ (Contains(metricInfo.Name, "request") \/ Contains(metricInfo.Name, "http"))
            THEN ReplaceAll(optimized0, "[5m]", "[2m]")
            ELSE optimized0
        optimized2 ==
            IF /\ Contains(metricInfo.Name, "error") /\ Contains(query, "rate(")
               /\ ~Contains(query, "sum")
            THEN ReplaceAll(optimized1, "rate(", "rate(")
            ELSE optimized1
        metricName == promql_extractMetricNameFromHistogramQuery(query)
        optimized3 ==
            ReplaceAll(optimized2, "rate(" \o metricName \o "_bucket[",
                       "sum(rate(" \o metricName \o "_bucket[")
    IN IF /\ Contains(query, "histogram_quantile")
          /\ ~Contains(query, "sum(rate(") /\ ~Contains(query, "sum by")
          /\ metricName # ""
       THEN IF Count(optimized3, "sum(") = 1
            THEN ReplaceAll(optimized3, "]))", "])) by (le)")
            ELSE optimized3
       ELSE optimized2

LLMQueryEnhancer_suggestVisualizationType(metricInfo, suggestion) ==
    LET vizType == suggestion.VisualizationType IN
    IF Contains(suggestion.Query, "histogram_quantile") THEN "timeseries"
    ELSE IF Contains(suggestion.Query, "avg(") /\ ~Contains(suggestion.Query, "over_time")
    THEN "stat"
    ELSE IF Contains(suggestion.Query, "max(") \/ Contains(suggestion.Query, "min(")
    THEN "stat"
    ELSE IF Contains(metricInfo.Name, "ratio") \/ Contains(metricInfo.Name, "percent")
    THEN "gauge"
    ELSE vizType

LLMQueryEnhancer_generateContextualQueries(metricInfo) ==
    LET metricName == metricInfo.Name
        contextual1 ==
            IF /\ (Contains(metricName, "http_request") \/ Contains(metricName, "request"))
               /\ metricInfo.Type = MetricTypeCounter
            THEN << QuerySuggestion(
                      "rate(" \o metricName \o "{status=~\"5..\"}[5m]) / rate("
                          \o metricName \o "[5m])",
                      "Error rate (5xx responses)", "timeseries", "error ratio"),
                    QuerySuggestion(
                      "rate(" \o metricName \o "{status=~\"2..\"}[5m]) / rate("
                          \o metricName \o "[5m])",
                      "Success rate (2xx responses)", "stat", "success ratio") >>
            ELSE <<>>
        contextual2 ==
            IF /\ metricInfo.Type = MetricTypeCounter
               /\ (Contains(metricName, "error") \/ Contains(metricName, "fail"))
            THEN Append(contextual1,
                    QuerySuggestion("increase(" \o metricName \o "[1h]) > 10",
                                    "High error count alert (>10/hour)", "table", "count"))
            ELSE contextual1
        contextual3 ==
            IF Contains(metricName, "cpu") /\ metricInfo.Type = MetricTypeGauge
            THEN Append(contextual2,
                    QuerySuggestion("(" \o metricName \o " > 80)",
                                    "High CPU usage alert (>80%)", "table", "percent"))
            ELSE contextual2
    IN IF Contains(metricName, "memory") /\ metricInfo.Type = MetricTypeGauge
       THEN Append(contextual3,
               QuerySuggestion("(" \o metricName \o " / 1024 / 1024 / 1024)",
                               "Memory usage in GB", "timeseries", "GB"))
       ELSE contextual3

LLMQueryEnhancer_enhanceQuery(metricInfo, suggestion) ==
    [suggestion EXCEPT
        !.Description = LLMQueryEnhancer_enhanceDescription(metricInfo, suggestion),
        !.Query = LLMQueryEnhancer_optimizeQuery(metricInfo, suggestion.Query),
        !.VisualizationType =
            LLMQueryEnhancer_suggestVisualizationType(metricInfo, suggestion)]

\* EnhanceQueries returning the enhanced copies without the contextual queries.
LLMQueryEnhancer_EnhanceQueries_NoContext(metricInfo, suggestions) ==
    [i \in 1..Len(suggestions) |-> LLMQueryEnhancer_enhanceQuery(metricInfo, suggestions[i])]

LLMQueryEnhancer_EnhanceQueries(metricInfo, suggestions) ==
    [i \in 1..Len(suggestions) |-> LLMQueryEnhancer_enhanceQuery(metricInfo, suggestions[i])]
    \o LLMQueryEnhancer_generateContextualQueries(metricInfo)

(***************************************************************************)
(* Package promql: Prometheus client                                       *)
(*                                                                         *)
(* What the Prometheus server (or the network) does with one HTTP call is  *)
(* a record: kind is "request_error" (the request could not be built),     *)
(* "transport_error" (client.Do failed, with a cause) or "http" (an answer *)
(* with a status code and a body).  A body is decodable or not; a decoded  *)
(* body is the envelope {status, data}.  The data of a metadata answer is  *)
(* the list of entries stored under the metric's name (empty when there is *)
(* none), the data of a labels answer is the list of label names.          *)
(***************************************************************************)

RequestError(cause) ==
    [kind |-> "request_error", cause |-> cause, code |-> 0,
     decodable |-> FALSE, body |-> "", status |-> "", data |-> <<>>]

TransportError(cause) ==
    [kind |-> "transport_error", cause |-> cause, code |-> 0,
     decodable |-> FALSE, body |-> "", status |-> "", data |-> <<>>]

\* An answer whose body, kept as text, is not JSON.
HttpMalformed(code, body) ==
    [kind |-> "http", cause |-> "", code |-> code,
     decodable |-> FALSE, body |-> body, status |-> "", data |-> <<>>]

HttpJSON(code, status, data) ==
    [kind |-> "http", cause |-> "", code |-> code,
     decodable |-> TRUE, body |-> "", status |-> status, data |-> data]

\* The bodies that are not JSON: the empty one, the text of the Grafana
\* tests and an HTML error page.
MalformedBodies == {"", "invalid json", "<html>Bad Gateway</html>"}

\* The error of json.Decoder.Decode on a body that is not JSON: io.EOF for
\* the empty body, otherwise the syntax error on the first byte, which for
\* the bodies above cannot begin a JSON value.
DecodeError(body) ==
    IF body = "" THEN "EOF"
    ELSE "invalid character '" \o Slice(body, 0, 1) \o "' looking for beginning of value"

StatusOK == 200

Digits == "0123456789"

\* fmt's %d of a non-negative int.
RECURSIVE Itoa(_)
Itoa(n) ==
    IF n < 10 THEN Slice(Digits, n, 1)
    ELSE Itoa(n \div 10) \o Slice(Digits, n % 10, 1)

\* The zero MetricInfo; stands for the nil *MetricInfo returned with an error.
NilMetricInfo == MetricInfo("", "", "", <<>>)

\* A (value, error) pair returned by a Go function; Err = "" is the nil error.
Returned(value, err) == [Value |-> value, Err |-> err]

\* getMetricLabels that does not look at the error of the decoder: the
\* zero response has the status "".
getMetricLabels_IgnoreDecode(metricName, reply) ==
    IF reply.kind = "request_error" \/ reply.kind = "transport_error"
    THEN Returned(<<>>, reply.cause)
    ELSE IF reply.code # StatusOK
    THEN Returned(<<>>, "failed to get labels: status " \o Itoa(reply.code))
    ELSE IF ~reply.decodable
    THEN Returned(<<>>, "")
    ELSE IF reply.status # "success"
    THEN Returned(<<>>, "labels API returned non-success status: " \o reply.status)
    ELSE Returned(reply.data, "")

getMetricLabels(metricName, reply) ==
    IF reply.kind = "request_error" \/ reply.kind = "transport_error"
    THEN Returned(<<>>, reply.cause)
    ELSE IF reply.code # StatusOK
    THEN Returned(<<>>, "failed to get labels: status " \o Itoa(reply.code))
    ELSE IF ~reply.decodable
    THEN Returned(<<>>, DecodeError(reply.body))
    ELSE IF reply.status # "success"
    THEN Returned(<<>>, "labels API returned non-success status: " \o reply.status)
    ELSE Returned(reply.data, "")

\* What getMetricMetadata returns, with the requests it has sent to
\* Prometheus, in order.
Fetched(value, err, requests) == [Value |-> value, Err |-> err, Requests |-> requests]

MetadataEndpoint == "/api/v1/metadata"
LabelsEndpoint == "/api/v1/labels"

\* getMetricMetadata that gives up when the labels cannot be fetched.
getMetricMetadata_FailOnLabels(metricName, reply, labelsReply) ==
    IF reply.kind = "request_error"
    THEN Fetched(NilMetricInfo, "failed to create request: " \o reply.cause, <<>>)
    ELSE IF reply.kind = "transport_error"
    THEN Fetched(NilMetricInfo, "failed to query Prometheus metadata: " \o reply.cause,
                 <<MetadataEndpoint>>)
    ELSE IF reply.code # StatusOK
    THEN Fetched(NilMetricInfo, "prometheus returned status " \o Itoa(reply.code),
                 <<MetadataEndpoint>>)
    ELSE IF ~reply.decodable
    THEN Fetched(NilMetricInfo, "failed to decode metadata response: " \o DecodeError(reply.body),
                 <<MetadataEndpoint>>)
    ELSE IF reply.status # "success"
    THEN Fetched(NilMetricInfo, "prometheus API returned non-success status: "
                     \o reply.status, <<MetadataEndpoint>>)
    ELSE IF Len(reply.data) = 0
    THEN Fetched(MetricInfo(metricName, inferMetricType(metricName),
                            "No metadata available", <<>>), "", <<MetadataEndpoint>>)
    ELSE LET labels == getMetricLabels(metricName, labelsReply) IN
         IF labels.Err # ""
         THEN Fetched(NilMetricInfo, "failed to get labels: " \o labels.Err,
                      <<MetadataEndpoint, LabelsEndpoint>>)
         ELSE Fetched(MetricInfo(metricName, reply.data[1].Type, reply.data[1].Help,
                                 labels.Value), "", <<MetadataEndpoint, LabelsEndpoint>>)

\* labelsReply is read only when the labels endpoint is called.  A request
\* that could not be built is not sent.
getMetricMetadata(metricName, reply, labelsReply) ==
    IF reply.kind = "request_error"
    THEN Fetched(NilMetricInfo, "failed to create request: " \o reply.cause, <<>>)
    ELSE IF reply.kind = "transport_error"
    THEN Fetched(NilMetricInfo, "failed to query Prometheus metadata: " \o reply.cause,
                 <<MetadataEndpoint>>)
    ELSE IF reply.code # StatusOK
    THEN Fetched(NilMetricInfo, "prometheus returned status " \o Itoa(reply.code),
                 <<MetadataEndpoint>>)
    ELSE IF ~reply.decodable
    THEN Fetched(NilMetricInfo, "failed to decode metadata response: " \o DecodeError(reply.body),
                 <<MetadataEndpoint>>)
    ELSE IF reply.status # "success"
    THEN Fetched(NilMetricInfo, "prometheus API returned non-success status: "
                     \o reply.status, <<MetadataEndpoint>>)
    ELSE IF Len(reply.data) = 0
    THEN Fetched(MetricInfo(metricName, inferMetricType(metricName),
                            "No metadata available", <<>>), "", <<MetadataEndpoint>>)
    ELSE LET labels == getMetricLabels(metricName, labelsReply) IN
         Fetched(MetricInfo(metricName, reply.data[1].Type, reply.data[1].Help,
                            IF labels.Err # "" THEN <<>> ELSE labels.Value), "",
                 <<MetadataEndpoint, LabelsEndpoint>>)

\* The body of an answer of /api/v1/query that is not a success: the data of
\* the reply holds the fields error and errorType of the envelope.
HttpQueryError(code, error, errorType) == HttpJSON(code, "error", <<error, errorType>>)

\* validateQuery: the error returned, "" for nil.  The status code of the
\* answer is not read.
validateQuery(query, reply) ==
    IF reply.kind = "request_error"
    THEN "failed to create validation request: " \o reply.cause
    ELSE IF reply.kind = "transport_error"
    THEN "failed to validate query: " \o reply.cause
    ELSE IF ~reply.decodable
    THEN "failed to decode validation response: " \o DecodeError(reply.body)
    ELSE IF reply.status # "success"
    THEN "query validation failed: " \o reply.data[1] \o " (" \o reply.data[2] \o ")"
    ELSE ""

(***************************************************************************)
(* Package grafana: the Grafana client                                     *)
(*                                                                         *)
(* An answer of Grafana is a reply record as above; the data of a decoded  *)
(* answer is the one-element list of the decoded struct.                   *)
(***************************************************************************)

StatusNotFound == 404

\* type Dashboard struct
Dashboard(dashboard, folderUID, message, overwrite) ==
    [Dashboard |-> dashboard, FolderUID |-> folderUID, Message |-> message,
     Overwrite |-> overwrite]

\* type DashboardResponse struct
DashboardResponse(id, uid, url, status, version, slug) ==
    [ID |-> id, UID |-> uid, URL |-> url, Status |-> status, Version |-> version,
     Slug |-> slug]

\* The zero DashboardResponse; stands for the nil pointer returned with an
\* error.
NilDashboardResponse == DashboardResponse(0, "", "", "", 0, "")

\* grafanaImpl.CreateDashboard.  The dashboard is built of JSON values, so
\* json.Marshal of it does not fail.
CreateDashboard(dashboard, grafanaURL, apiKey, reply) ==
    IF reply.kind = "request_error"
    THEN Returned(NilDashboardResponse, "failed to create request: " \o reply.cause)
    ELSE IF reply.kind = "transport_error"
    THEN Returned(NilDashboardResponse, "failed to create dashboard: " \o reply.cause)
    ELSE IF reply.code # StatusOK
    THEN Returned(NilDashboardResponse, "grafana returned status " \o Itoa(reply.code))
    ELSE IF ~reply.decodable
    THEN Returned(NilDashboardResponse, "failed to decode response: " \o DecodeError(reply.body))
    ELSE Returned(reply.data[1], "")

\* The zero Dashboard; stands for the nil pointer returned with an error.
NilDashboard == Dashboard([title |-> ""], "", "", FALSE)

\* grafanaImpl.GetDashboard: the dashboard object of the answer.
GetDashboard(uid, grafanaURL, apiKey, reply) ==
    IF reply.kind = "request_error"
    THEN Returned(NilDashboard, "failed to create request: " \o reply.cause)
    ELSE IF reply.kind = "transport_error"
    THEN Returned(NilDashboard, "failed to get dashboard: " \o reply.cause)
    ELSE IF reply.code = StatusNotFound
    THEN Returned(NilDashboard, "dashboard not found")
    ELSE IF reply.code # StatusOK
    THEN Returned(NilDashboard, "grafana returned status " \o Itoa(reply.code))
    ELSE IF ~reply.decodable
    THEN Returned(NilDashboard, "failed to decode response: " \o DecodeError(reply.body))
    ELSE Returned(Dashboard(reply.data[1], "", "", FALSE), "")

(***************************************************************************)
(* Package skills: the panels of create_dashboard                          *)
(*                                                                         *)
(* A panel is a JSON object, a record of kind "object": title, type,       *)
(* description and unit (of fieldConfig.defaults) are strings, "" when the *)
(* key is absent; targets is the list of its targets, hasTargets whether   *)
(* the key targets is there.  A target has a refId, an expr and, when      *)
(* hasLegend, a legendFormat.                                              *)
(***************************************************************************)

Target(refId, expr) ==
    [refId |-> refId, expr |-> expr, hasLegend |-> FALSE, legendFormat |-> ""]

LegendTarget(refId, expr, legendFormat) ==
    [refId |-> refId, expr |-> expr, hasLegend |-> TRUE, legendFormat |-> legendFormat]

Panel(title, type, description, unit, targets) ==
    [kind |-> "object", title |-> title, type |-> type, description |-> description,
     unit |-> unit, hasTargets |-> TRUE, targets |-> targets]

mapVisualizationType(vizType) ==
    CASE vizType = "timeseries" -> "timeseries"
      [] vizType = "stat" -> "stat"
      [] vizType = "gauge" -> "gauge"
      [] vizType = "table" -> "table"
      [] OTHER -> "timeseries"

inferUnit(metricName, yAxisLabel) ==
    IF \/ Contains(metricName, "duration") \/ Contains(metricName, "latency")
       \/ Contains(yAxisLabel, "duration") \/ Contains(yAxisLabel, "time")
    THEN "s"
    ELSE IF Contains(yAxisLabel, "per second") \/ Contains(yAxisLabel, "requests/sec")
    THEN "reqps"
    ELSE IF \/ Contains(metricName, "ratio") \/ Contains(metricName, "percent")
            \/ Contains(yAxisLabel, "percent")
    THEN "percent"
    ELSE IF \/ Contains(metricName, "bytes") \/ Contains(metricName, "size")
            \/ Contains(metricName, "memory")
    THEN "bytes"
    ELSE IF Contains(metricName, "cpu")
    THEN "percent"
    ELSE "short"

\* refId := string(rune('B' + j))
RefIdLetters == "BCD"

\* The loop over enhancedSuggestions[1:]: at most three more targets, the
\* suggestions whose validation fails left out.  verrs[j + 2] is the error
\* of the validation of the suggestion at offset j ("" for nil).
\* AdditionalTargets that letters its targets in the order they are added.
RECURSIVE AdditionalTargets_CompactIds(_, _, _)
AdditionalTargets_CompactIds(rest, verrs, j) ==
    IF j >= Len(rest) \/ j >= 3 THEN <<>>
    ELSE (IF verrs[j + 2] # "" THEN <<>>
          ELSE << LegendTarget(
                    Slice(RefIdLetters,
                          Cardinality({k \in 0..(j - 1) : verrs[k + 2] = ""}), 1),
                    rest[j + 1].Query, rest[j + 1].Description) >>)
         \o AdditionalTargets_CompactIds(rest, verrs, j + 1)

RECURSIVE AdditionalTargets(_, _, _)
AdditionalTargets(rest, verrs, j) ==
    IF j >= Len(rest) \/ j >= 3 THEN <<>>
    ELSE (IF verrs[j + 2] # "" THEN <<>>
          ELSE << LegendTarget(Slice(RefIdLetters, j, 1), rest[j + 1].Query,
                               rest[j + 1].Description) >>)
         \o AdditionalTargets(rest, verrs, j + 1)

\* The panel made when the metadata of the metric cannot be fetched.
BasicPanel(metricName) ==
    Panel(metricName, "timeseries", "", "", << Target("A", metricName) >>)

\* MetricPanel that keeps the best query when its validation fails.
MetricPanel_KeepRejected(metricName, metricInfo, verrs) ==
    LET generated == generateQueries(metricInfo)
        enhancedSuggestions == enhanceQueries(metricInfo, generated)
        bestQuery == getBestQuery(enhancedSuggestions)
    IN Panel(metricName \o " - " \o bestQuery.Description,
             mapVisualizationType(bestQuery.VisualizationType),
             IF metricInfo.Help # "" /\ metricInfo.Help # "No metadata available"
             THEN metricInfo.Help ELSE "",
             inferUnit(metricName, bestQuery.YAxisLabel),
             IF Len(enhancedSuggestions) > 1
             THEN << LegendTarget("A", bestQuery.Query, bestQuery.Description) >>
                  \o AdditionalTargets(Tail(enhancedSuggestions), verrs, 0)
             ELSE << Target("A", bestQuery.Query) >>)

\* The panel generatePanelsFromMetrics makes of a metric whose metadata was
\* fetched and whose suggestions are not empty.  verrs[1] is the error of
\* the validation of the best query.
MetricPanel(metricName, metricInfo, verrs) ==
    LET generated == generateQueries(metricInfo)
        enhancedSuggestions == enhanceQueries(metricInfo, generated)
        selected == getBestQuery(enhancedSuggestions)
        bestQuery == IF verrs[1] # ""
                     THEN [selected EXCEPT !.Query = metricName]
                     ELSE selected
    IN Panel(metricName \o " - " \o bestQuery.Description,
             mapVisualizationType(bestQuery.VisualizationType),
             IF metricInfo.Help # "" /\ metricInfo.Help # "No metadata available"
             THEN metricInfo.Help ELSE "",
             inferUnit(metricName, bestQuery.YAxisLabel),
             IF Len(enhancedSuggestions) > 1
             THEN << LegendTarget("A", bestQuery.Query, bestQuery.Description) >>
                  \o AdditionalTargets(Tail(enhancedSuggestions), verrs, 0)
             ELSE << Target("A", bestQuery.Query) >>)

\* The queries generatePanelsFromMetrics has validated for such a metric,
\* in order: the best one, then up to three of the others.
ValidatedQueries(metricInfo) ==
    LET enhancedSuggestions == enhanceQueries(metricInfo, generateQueries(metricInfo))
    IN << getBestQuery(enhancedSuggestions).Query >>
       \o [j \in 1..(IF Len(enhancedSuggestions) - 1 < 3
                     THEN Len(enhancedSuggestions) - 1 ELSE 3) |->
             enhancedSuggestions[j + 1].Query]

(***************************************************************************)
(* Inputs of the model                                                     *)
(***************************************************************************)

\* The longest label list of a MetricInfo.
MaxLabels == 2

\* Metric names: a stem followed by a suffix.  The stems and suffixes hold
\* every substring the heuristics test, alone and combined, and one stem in
\* upper case.
NameStems ==
    {"", "x", "http_requests", "request", "http_duration", "api_latency",
     "memory_usage", "cpu", "node_errors", "request_errors", "disk_size",
     "CPU_Usage", "job_failures", "up"}

NameSuffixes ==
    {"", "_total", "_count", "_bucket", "_sum", "_count_bucket", "_sum_count",
     "_total_bytes"}

MetricNames == {stem \o suffix : stem \in NameStems, suffix \in NameSuffixes}

\* The type strings Prometheus may report: the five the code names and one
\* it does not.
TypeValues ==
    {MetricTypeCounter, MetricTypeGauge, MetricTypeHistogram, MetricTypeSummary,
     MetricTypeUnknown, "info"}

\* The label names of the Prometheus server, sorted as /api/v1/labels
\* returns them.
LabelUniverse == <<"__meta", "__name__", "method", "status">>

\* The elements of seq at the positions of the set idx, in order.
RECURSIVE Pick(_, _, _)
Pick(seq, idx, i) ==
    IF i > Len(seq) THEN <<>>
    ELSE (IF i \in idx THEN <<seq[i]>> ELSE <<>>) \o Pick(seq, idx, i + 1)

LabelLists ==
    {Pick(LabelUniverse, idx, 1) :
        idx \in {d \in SUBSET (1..Len(LabelUniverse)) : Cardinality(d) <= MaxLabels}}

MetadataHelp == "Help text"

\* What Prometheus may answer to the metadata call and to the labels call.
MetadataReplies ==
    {RequestError("invalid URL escape"), TransportError("connection refused"),
     HttpJSON(503, "error", <<>>), HttpJSON(200, "error", <<>>),
     HttpJSON(200, "success", <<>>)}
    \cup {HttpMalformed(200, b) : b \in MalformedBodies}
    \cup {HttpJSON(200, "success", <<[Type |-> t, Help |-> MetadataHelp]>>) :
            t \in TypeValues}

LabelsReplies ==
    {TransportError("connection reset"),
     HttpJSON(500, "error", <<>>), HttpJSON(200, "error", <<>>)}
    \cup {HttpMalformed(200, b) : b \in MalformedBodies}
    \cup {HttpJSON(200, "success", l) : l \in LabelLists}

(***************************************************************************)
(* The engine: one metric taken through metadata lookup, generation,       *)
(* enhancement and selection, the chain of generatePanelsFromMetrics.      *)
(***************************************************************************)

\* The state of the engine on one metric.
VARIABLES
    stage,          \* how far the chain has come
    metricName,     \* the metric name given
    metadataErr,    \* the error of getMetricMetadata ("" for nil)
    metricInfo,     \* the MetricInfo of getMetricMetadata
    suggestions,    \* the list given to the enhancer (the generator's, or none)
    enhanced,       \* the result of enhanceQueries
    best            \* the result of getBestQuery

engineVars == <<stage, metricName, metadataErr, metricInfo, suggestions, enhanced, best>>

\* The state of one call of GeneratePromqlQueriesHandler.
VARIABLES
    hpc,            \* where the handler is: "called", "loop", "returned"
    args,           \* the args map of the call
    prometheusURL,  \* the handler's prometheusURL
    metricNames,    \* the handler's metricNames
    results,        \* response.Results
    retErr,         \* the error returned ("" for nil)
    calls           \* the calls made on the PromQL service, in order

handlerVars == <<hpc, args, prometheusURL, metricNames, results, retErr, calls>>

\* The state of one call of ValidatePromqlQueryHandler.
VARIABLES
    vpc,            \* where the handler is: "called", "validating", "returned"
    vargs,          \* the args map of the call
    vresponse,      \* the JSON document returned (NoDocument when none)
    vretErr,        \* the error returned ("" for nil)
    vcalls          \* the calls made on the PromQL service, in order

validateVars == <<vpc, vargs, vresponse, vretErr, vcalls>>

\* The state of one call of CreateDashboardHandler.
VARIABLES
    dpc,            \* where the handler is: "called", "generating", "assemble",
                    \* "returned"
    dargs,          \* the args map of the call
    dconfig,        \* the skill's *config.GrafanaConfig
    dindex,         \* how many entries of metricNames the panel loop has read
    dpanels,        \* the panels of generatePanelsFromMetrics so far
    dsuggestions,   \* enhancedSuggestions of the iteration that made the last
                    \* panel (empty when that panel is the basic one)
    ddoc,           \* the JSON document returned (NoDocument when none)
    dretErr,        \* the error returned ("" for nil)
    dcalls          \* the calls made on Prometheus and Grafana, in order

dashboardVars ==
    <<dpc, dargs, dconfig, dindex, dpanels, dsuggestions, ddoc, dretErr, dcalls>>

\* The state of one call of DeployDashboardHandler.
VARIABLES
    deployPc,       \* where the handler is: "called", "sending", "returned"
    deployArgs,     \* the args map of the call
    deployConfig,   \* the skill's *config.GrafanaConfig
    deployDoc,      \* the JSON document returned (NoDocument when none)
    deployErr,      \* the error returned ("" for nil)
    deployCalls     \* the calls made on the Grafana service, in order

deployVars == <<deployPc, deployArgs, deployConfig, deployDoc, deployErr, deployCalls>>

\* The state of one call on the Prometheus client or on the Grafana service.
VARIABLES
    clientPc,       \* "called" or "returned"
    clientOp,       \* the function called
    clientSubject,  \* the metric name, the query or the dashboard uid
    clientReply,    \* the answer to the function's request (NoReply before)
    clientLabels,   \* the answer to the labels request getMetricMetadata
                    \* makes (NoReply when it makes none)
    clientResult    \* what the function has returned

clientVars == <<clientPc, clientOp, clientSubject, clientReply, clientLabels,
                clientResult>>

\* The state of one call of enhanceQuery.
VARIABLES
    epc,            \* "called" or "returned"
    emetric,        \* the name of the *MetricInfo
    esuggestion,    \* the suggestion passed in
    eenhanced       \* the suggestion returned

enhancerVars == <<epc, emetric, esuggestion, eenhanced>>

\* What each group of actions leaves alone.
notEngineVars ==
    <<handlerVars, validateVars, dashboardVars, deployVars, clientVars, enhancerVars>>
notHandlerVars ==
    <<engineVars, validateVars, dashboardVars, deployVars, clientVars, enhancerVars>>
notValidateVars ==
    <<engineVars, handlerVars, dashboardVars, deployVars, clientVars, enhancerVars>>
notDashboardVars ==
    <<engineVars, handlerVars, validateVars, deployVars, clientVars, enhancerVars>>
notDeployVars ==
    <<engineVars, handlerVars, validateVars, dashboardVars, clientVars, enhancerVars>>
notClientVars ==
    <<engineVars, handlerVars, validateVars, dashboardVars, deployVars, enhancerVars>>
notEnhancerVars ==
    <<engineVars, handlerVars, validateVars, dashboardVars, deployVars, clientVars>>

NoSuggestion == QuerySuggestion("", "", "", "")

EngineIdle ==
    /\ stage = "idle"
    /\ metricName = ""
    /\ metadataErr = ""
    /\ metricInfo = NilMetricInfo
    /\ suggestions = <<>>
    /\ enhanced = <<>>
    /\ best = NoSuggestion

EngineInit ==
    /\ stage = "start"
    /\ metricName \in MetricNames
    /\ metadataErr = ""
    /\ metricInfo = NilMetricInfo
    /\ suggestions = <<>>
    /\ enhanced = <<>>
    /\ best = NoSuggestion

\* prometheusClient.getMetricMetadata, with Prometheus's answers chosen.
GetMetricMetadata ==
    /\ stage = "start"
    /\ \E reply \in MetadataReplies, labelsReply \in LabelsReplies :
          LET r == getMetricMetadata(metricName, reply, labelsReply) IN
          /\ metadataErr' = r.Err
          /\ metricInfo' = r.Value
          /\ stage' = IF r.Err # "" THEN "failed" ELSE "info"
    /\ UNCHANGED <<metricName, suggestions, enhanced, best>>
    /\ UNCHANGED notEngineVars

\* generateQueries on the MetricInfo.
GenerateQueries ==
    /\ stage = "info"
    /\ suggestions' = generateQueries(metricInfo)
    /\ stage' = "generated"
    /\ UNCHANGED <<metricName, metadataErr, metricInfo, enhanced, best>>
    /\ UNCHANGED notEngineVars

\* enhanceQueries on the MetricInfo and the generator's list.
EnhanceQueries ==
    /\ stage = "generated"
    /\ enhanced' = enhanceQueries(metricInfo, suggestions)
    /\ stage' = "enhanced"
    /\ UNCHANGED <<metricName, metadataErr, metricInfo, suggestions, best>>
    /\ UNCHANGED notEngineVars

\* getBestQuery called on the generator's list instead of the enhanced one.
GetBestQuery_FromGenerated ==
    /\ stage = "enhanced"
    /\ best' = getBestQuery(suggestions)
    /\ stage' = "selected"
    /\ UNCHANGED <<metricName, metadataErr, metricInfo, suggestions, enhanced>>
    /\ UNCHANGED notEngineVars

\* getBestQuery on the enhanced list.
GetBestQuery ==
    /\ stage = "enhanced"
    /\ best' = getBestQuery(enhanced)
    /\ stage' = "selected"
    /\ UNCHANGED <<metricName, metadataErr, metricInfo, suggestions, enhanced>>
    /\ UNCHANGED notEngineVars

(***************************************************************************)
(* Package skills: GeneratePromqlQueriesHandler                            *)
(*                                                                         *)
(* A value of the args map (decoded JSON) is a record: kind is "absent"    *)
(* (no such key), "null", "number", "string" (with str) or "array" (with   *)
(* elems, values of the same shape).                                       *)
(***************************************************************************)

JAbsent == [kind |-> "absent", str |-> "", elems |-> <<>>]
JNull == [kind |-> "null", str |-> "", elems |-> <<>>]
JNumber == [kind |-> "number", str |-> "", elems |-> <<>>]
JString(str) == [kind |-> "string", str |-> str, elems |-> <<>>]
JArray(elems) == [kind |-> "array", str |-> "", elems |-> elems]

\* type QueryGenerationResult struct
QueryGenerationResult(name, metricType, metricHelp, labels, suggs, error) ==
    [MetricName |-> name, MetricType |-> metricType, MetricHelp |-> metricHelp,
     Labels |-> labels, Suggestions |-> suggs, Error |-> error]

\* The argument checks of the handler, metric_names checked before
\* prometheus_url.
validateArgs_NamesFirst(a) ==
    IF a.metric_names.kind = "absent"
    THEN "metric_names is required"
    ELSE IF a.metric_names.kind # "array"
    THEN "metric_names must be an array"
    ELSE IF Len(a.metric_names.elems) = 0
    THEN "metric_names cannot be empty"
    ELSE IF a.prometheus_url.kind # "string" \/ a.prometheus_url.str = ""
    THEN "prometheus_url is required and must be a string"
    ELSE ""

\* The argument checks of the handler: the error returned, "" when the
\* arguments pass.
validateArgs(a) ==
    IF a.prometheus_url.kind # "string" \/ a.prometheus_url.str = ""
    THEN "prometheus_url is required and must be a string"
    ELSE IF a.metric_names.kind = "absent"
    THEN "metric_names is required"
    ELSE IF a.metric_names.kind # "array"
    THEN "metric_names must be an array"
    ELSE IF Len(a.metric_names.elems) = 0
    THEN "metric_names cannot be empty"
    ELSE ""

\* The loop that keeps the string-typed entries of metric_names.
RECURSIVE stringEntries(_)
stringEntries(elems) ==
    IF elems = <<>> THEN <<>>
    ELSE (IF Head(elems).kind = "string" THEN <<Head(elems).str>> ELSE <<>>)
         \o stringEntries(Tail(elems))

\* The arguments and Prometheus answers of the handler's model.
MaxMetrics == 2

HandlerMetricNames == {"http_requests_total", "api_latency"}

MetricNameEntries == {JString(n) : n \in HandlerMetricNames} \cup {JNumber}

RECURSIVE EntryLists(_)
EntryLists(n) ==
    IF n = 0 THEN {<<>>}
    ELSE EntryLists(n - 1)
         \cup {Append(l, e) : l \in {x \in EntryLists(n - 1) : Len(x) = n - 1},
                              e \in MetricNameEntries}

HandlerArgs ==
    [prometheus_url : {JAbsent, JNumber, JString(""), JString("http://prometheus:9090")},
     metric_names : {JAbsent, JNull, JString("up")}
                      \cup {JArray(l) : l \in EntryLists(MaxMetrics)}]

HandlerMetadataReplies ==
    {TransportError("connection refused"), HttpJSON(503, "error", <<>>),
     HttpJSON(200, "success", <<>>),
     HttpJSON(200, "success", <<[Type |-> MetricTypeSummary, Help |-> MetadataHelp]>>),
     HttpJSON(200, "success", <<[Type |-> MetricTypeCounter, Help |-> MetadataHelp]>>)}

HandlerLabelsReplies ==
    {HttpJSON(500, "error", <<>>), HttpJSON(200, "success", <<"__name__", "method">>)}

HandlerIdle ==
    /\ hpc = "idle"
    /\ args = [prometheus_url |-> JAbsent, metric_names |-> JAbsent]
    /\ prometheusURL = ""
    /\ metricNames = <<>>
    /\ results = <<>>
    /\ retErr = ""
    /\ calls = <<>>

HandlerInit ==
    /\ hpc = "called"
    /\ args \in HandlerArgs
    /\ prometheusURL = ""
    /\ metricNames = <<>>
    /\ results = <<>>
    /\ retErr = ""
    /\ calls = <<>>

\* The handler up to its loop: the argument checks, then the string-typed
\* metric names and the empty response.
HandlerValidate ==
    /\ hpc = "called"
    /\ retErr' = validateArgs(args)
    /\ IF validateArgs(args) # ""
       THEN /\ hpc' = "returned"
            /\ UNCHANGED <<prometheusURL, metricNames>>
       ELSE /\ hpc' = "loop"
            /\ prometheusURL' = args.prometheus_url.str
            /\ metricNames' = stringEntries(args.metric_names.elems)
    /\ results' = <<>>
    /\ UNCHANGED <<args, calls>>
    /\ UNCHANGED notHandlerVars

\* A call on the PromQL service, as logged.
MetadataCall(url, name, returned) ==
    [op |-> "GetMetricMetadata", url |-> url, metric |-> name,
     info |-> returned.Value, err |-> returned.Err]

GenerateCall(url, name, info) ==
    [op |-> "GenerateQueries", url |-> url, metric |-> name, info |-> info, err |-> ""]

\* The result of a metric whose suggestion list is empty, with the fetched
\* type, help and labels left out.
SuggestionsResult_BlankOnEmpty(name, info, suggs) ==
    IF Len(suggs) = 0
    THEN QueryGenerationResult(name, "", "", <<>>, <<>>,
                               "no query suggestions could be generated")
    ELSE QueryGenerationResult(name, info.Type, info.Help, info.Labels, suggs, "")

\* The result of a metric whose metadata was fetched: type, help and labels
\* are copied first, then the error or the suggestions are set.
SuggestionsResult(name, info, suggs) ==
    IF Len(suggs) = 0
    THEN QueryGenerationResult(name, info.Type, info.Help, info.Labels, <<>>,
                               "no query suggestions could be generated")
    ELSE QueryGenerationResult(name, info.Type, info.Help, info.Labels, suggs, "")

\* One iteration of the handler's loop that gives up the whole request when
\* the metadata of a metric cannot be fetched.
HandlerMetric_AbortOnError ==
    /\ hpc = "loop"
    /\ Len(results) < Len(metricNames)
    /\ \E reply \in HandlerMetadataReplies, labelsReply \in HandlerLabelsReplies :
          LET name == metricNames[Len(results) + 1]
              r == getMetricMetadata(name, reply, labelsReply)
              suggs == generateQueries(r.Value)
          IN IF r.Err # ""
             THEN /\ calls' = Append(calls, MetadataCall(prometheusURL, name, r))
                  /\ retErr' = "failed to get metadata: " \o r.Err
                  /\ hpc' = "returned"
                  /\ UNCHANGED results
             ELSE /\ calls' = calls \o << MetadataCall(prometheusURL, name, r),
                                          GenerateCall(prometheusURL, name, r.Value) >>
                  /\ results' = Append(results,
                        QueryGenerationResult(name, r.Value.Type, r.Value.Help,
                                              r.Value.Labels, suggs, ""))
                  /\ UNCHANGED <<hpc, retErr>>
    /\ UNCHANGED <<args, prometheusURL, metricNames>>
    /\ UNCHANGED notHandlerVars

\* One iteration of the handler's loop that fetches the metadata a second
\* time when the first fetch fails.
HandlerMetric_RetryFetch ==
    /\ hpc = "loop"
    /\ Len(results) < Len(metricNames)
    /\ \E reply \in HandlerMetadataReplies, labelsReply \in HandlerLabelsReplies :
          LET name == metricNames[Len(results) + 1]
              r == getMetricMetadata(name, reply, labelsReply)
              suggs == generateQueries(r.Value)
          IN IF r.Err # ""
             THEN /\ calls' = calls \o << MetadataCall(prometheusURL, name, r),
                                          MetadataCall(prometheusURL, name, r) >>
                  /\ results' = Append(results,
                        QueryGenerationResult(name, "", "", <<>>, <<>>,
                                              "failed to get metadata: " \o r.Err))
             ELSE /\ calls' = calls \o << MetadataCall(prometheusURL, name, r),
                                          GenerateCall(prometheusURL, name, r.Value) >>
                  /\ results' = Append(results,
                        QueryGenerationResult(name, r.Value.Type, r.Value.Help,
                                              r.Value.Labels, suggs, ""))
    /\ UNCHANGED <<hpc, args, prometheusURL, metricNames, retErr>>
    /\ UNCHANGED notHandlerVars

\* One iteration of the handler's loop, for the next metric name: the
\* metadata fetch, then the generation, then the result appended.
HandlerMetric ==
    /\ hpc = "loop"
    /\ Len(results) < Len(metricNames)
    /\ \E reply \in HandlerMetadataReplies, labelsReply \in HandlerLabelsReplies :
          LET name == metricNames[Len(results) + 1]
              r == getMetricMetadata(name, reply, labelsReply)
              suggs == generateQueries(r.Value)
          IN IF r.Err # ""
             THEN /\ calls' = Append(calls, MetadataCall(prometheusURL, name, r))
                  /\ results' = Append(results,
                        QueryGenerationResult(name, "", "", <<>>, <<>>,
                                              "failed to get metadata: " \o r.Err))
             ELSE /\ calls' = calls \o << MetadataCall(prometheusURL, name, r),
                                          GenerateCall(prometheusURL, name, r.Value) >>
                  /\ results' = Append(results, SuggestionsResult(name, r.Value, suggs))
    /\ UNCHANGED <<hpc, args, prometheusURL, metricNames, retErr>>
    /\ UNCHANGED notHandlerVars

\* The handler after its loop: the response is returned with a nil error.
HandlerReturn ==
    /\ hpc = "loop"
    /\ Len(results) = Len(metricNames)
    /\ hpc' = "returned"
    /\ retErr' = ""
    /\ UNCHANGED <<args, prometheusURL, metricNames, results, calls>>
    /\ UNCHANGED notHandlerVars

(***************************************************************************)
(* Package skills: ValidatePromqlQueryHandler                              *)
(***************************************************************************)

\* No JSON document: the "" returned together with an error.
NoDocument == [kind |-> "none"]

\* json.MarshalIndent of a ValidateQueryResponse: the key error is left out
\* when the Error field is empty (omitempty).
MarshalValidateQueryResponse(url, query, valid, error) ==
    [kind |-> "ValidateQueryResponse", prometheus_url |-> url, query |-> query,
     valid |-> valid, error |-> IF error = "" THEN JAbsent ELSE JString(error)]

\* The argument checks of the handler: the error returned, "" when the
\* arguments pass.
validateQueryArgs(a) ==
    IF a.prometheus_url.kind # "string" \/ a.prometheus_url.str = ""
    THEN "prometheus_url is required and must be a string"
    ELSE IF a.query.kind # "string" \/ a.query.str = ""
    THEN "query is required and must be a string"
    ELSE ""

\* A call of ValidateQuery on the PromQL service, as logged.
ValidateCall(url, query, err) ==
    [op |-> "ValidateQuery", url |-> url, query |-> query, err |-> err]

\* The arguments and Prometheus answers of the handler's model.
ValidateQueries ==
    {"up", "rate(http_requests_total[5m])", "rate(up[5m",
     "histogram_quantile(0.95, rate(x_bucket[5m]))"}

ValidateArgs ==
    [prometheus_url : {JAbsent, JNumber, JString(""), JString("http://prometheus:9090"),
                       JString("http://localhost:9090/")},
     query : {JAbsent, JNull, JString("")} \cup {JString(q) : q \in ValidateQueries}]

ValidationReplies ==
    {RequestError("invalid URL escape"), TransportError("connection refused"),
     HttpMalformed(502, "<html>Bad Gateway</html>"),
     HttpQueryError(400, "parse error: unclosed left bracket", "bad_data"),
     HttpQueryError(200, "", ""),
     HttpJSON(200, "success", <<"", "">>), HttpJSON(503, "success", <<"", "">>)}
    \cup {HttpMalformed(200, b) : b \in MalformedBodies}

ValidateIdle ==
    /\ vpc = "idle"
    /\ vargs = [prometheus_url |-> JAbsent, query |-> JAbsent]
    /\ vresponse = NoDocument
    /\ vretErr = ""
    /\ vcalls = <<>>

ValidateInit ==
    /\ vpc = "called"
    /\ vargs \in ValidateArgs
    /\ vresponse = NoDocument
    /\ vretErr = ""
    /\ vcalls = <<>>

\* The handler up to the call of ValidateQuery: the argument checks.
ValidateCheck ==
    /\ vpc = "called"
    /\ vretErr' = validateQueryArgs(vargs)
    /\ vpc' = IF validateQueryArgs(vargs) # "" THEN "returned" ELSE "validating"
    /\ UNCHANGED <<vargs, vresponse, vcalls>>
    /\ UNCHANGED notValidateVars

\* The handler that gives the error of ValidateQuery back as its own.
ValidateRun_FailRequest ==
    /\ vpc = "validating"
    /\ \E reply \in ValidationReplies :
          LET url == vargs.prometheus_url.str
              query == vargs.query.str
              err == validateQuery(query, reply)
          IN /\ vcalls' = Append(vcalls, ValidateCall(url, query, err))
             /\ vresponse' = IF err # "" THEN NoDocument
                              ELSE MarshalValidateQueryResponse(url, query, TRUE, "")
             /\ vretErr' = err
    /\ vpc' = "returned"
    /\ UNCHANGED vargs
    /\ UNCHANGED notValidateVars

\* The handler from the call of ValidateQuery on: the response is built
\* from the error of the call and returned with a nil error.
ValidateRun ==
    /\ vpc = "validating"
    /\ \E reply \in ValidationReplies :
          LET url == vargs.prometheus_url.str
              query == vargs.query.str
              err == validateQuery(query, reply)
          IN /\ vcalls' = Append(vcalls, ValidateCall(url, query, err))
             /\ vresponse' = IF err # ""
                              THEN MarshalValidateQueryResponse(url, query, FALSE, err)
                              ELSE MarshalValidateQueryResponse(url, query, TRUE, "")
    /\ vpc' = "returned"
    /\ vretErr' = ""
    /\ UNCHANGED vargs
    /\ UNCHANGED notValidateVars

(***************************************************************************)
(* Package skills: CreateDashboardHandler                                  *)
(***************************************************************************)

\* A JSON boolean of the args map.
JBool(b) == [kind |-> "bool", str |-> "", elems |-> <<>>, bool |-> b]

\* The skill's *config.GrafanaConfig: nil, or the struct.
NilConfig == [nil |-> TRUE, DeployEnabled |-> FALSE, URL |-> "", APIKey |-> ""]

GrafanaConfig(deployEnabled, url, apiKey) ==
    [nil |-> FALSE, DeployEnabled |-> deployEnabled, URL |-> url, APIKey |-> apiKey]

\* deployRequested && deploy, with any value of the key deploy taken for a
\* request to deploy.
deployRequested_AnyValue(a) == a.deploy.kind # "absent"

\* deployRequested && deploy of deploy, deployRequested := args["deploy"].(bool)
deployRequested(a) == a.deploy.kind = "bool" /\ a.deploy.bool

\* The Grafana URL of the call: the non-empty argument, else the configured
\* URL, else "".
resolveGrafanaURL(a, cfg) ==
    IF a.grafana_url.kind = "string" /\ a.grafana_url.str # ""
    THEN a.grafana_url.str
    ELSE IF ~cfg.nil /\ cfg.URL # "" THEN cfg.URL
    ELSE ""

\* The API key of the call: the configured one, else "".
resolveAPIKey(cfg) == IF ~cfg.nil /\ cfg.APIKey # "" THEN cfg.APIKey ELSE ""

\* metricNames, ok := args["metric_names"].([]any); ok && len(metricNames) > 0
hasMetricNames(a) == a.metric_names.kind = "array" /\ Len(a.metric_names.elems) > 0

\* The checks before any panel is made, the deployment prerequisites read
\* before the title.
dashboardPrecheck_DeployFirst(a, cfg) ==
    IF deployRequested(a) /\ ~cfg.nil /\ ~cfg.DeployEnabled
    THEN "grafana deployment is disabled - set GRAFANA_DEPLOY_ENABLED=true to enable dashboard deployments"
    ELSE IF deployRequested(a) /\ resolveGrafanaURL(a, cfg) = ""
    THEN "deployment requested but no grafana_url provided"
    ELSE IF a.dashboard_title.kind # "string" \/ a.dashboard_title.str = ""
    THEN "dashboard_title is required and must be a string"
    ELSE IF /\ hasMetricNames(a)
            /\ (a.prometheus_url.kind # "string" \/ a.prometheus_url.str = "")
    THEN "prometheus_url is required when using metric_names"
    ELSE ""

\* The checks of the handler before any panel is made: the error returned,
\* "" when they pass.
dashboardPrecheck(a, cfg) ==
    IF a.dashboard_title.kind # "string" \/ a.dashboard_title.str = ""
    THEN "dashboard_title is required and must be a string"
    ELSE IF deployRequested(a) /\ ~cfg.nil /\ ~cfg.DeployEnabled
    THEN "grafana deployment is disabled - set GRAFANA_DEPLOY_ENABLED=true to enable dashboard deployments"
    ELSE IF deployRequested(a) /\ resolveGrafanaURL(a, cfg) = ""
    THEN "deployment requested but no grafana_url provided"
    ELSE IF /\ hasMetricNames(a)
            /\ (a.prometheus_url.kind # "string" \/ a.prometheus_url.str = "")
    THEN "prometheus_url is required when using metric_names"
    ELSE ""

getStringOrDefault(val, defaultValue) == IF val # "" THEN val ELSE defaultValue

\* processPanels from the 0-based index i on: the entries that are objects,
\* each with its id, its defaults and its place on the grid.
RECURSIVE processPanelsFrom(_, _)
processPanelsFrom(panels, i) ==
    IF i >= Len(panels) THEN <<>>
    ELSE (IF panels[i + 1].kind # "object" THEN <<>>
          ELSE << [id |-> i + 1,
                   type |-> getStringOrDefault(panels[i + 1].type, "timeseries"),
                   title |-> getStringOrDefault(panels[i + 1].title,
                                                "Panel " \o Itoa(i + 1)),
                   gridPos |-> [x |-> (i % 2) * 12, y |-> (i \div 2) * 8,
                                w |-> 12, h |-> 8],
                   targets |-> IF panels[i + 1].hasTargets
                               THEN panels[i + 1].targets
                               ELSE << Target("A", "") >>,
                   unit |-> panels[i + 1].unit,
                   description |-> panels[i + 1].description] >>)
         \o processPanelsFrom(panels, i + 1)

processPanels(panels) == processPanelsFrom(panels, 0)

\* The dashboard document of the handler; the keys tags, time_range,
\* refresh_interval, description and variables of args are not given.
DashboardDocument(title, panels) ==
    [kind |-> "dashboard",
     dashboard |-> [title |-> title, tags |-> <<>>, timezone |-> "browser",
                    panels |-> processPanels(panels),
                    time |-> [from |-> "now-6h", to |-> "now"], refresh |-> "5s"],
     folderUid |-> "", message |-> "", overwrite |-> FALSE]

\* The deployment information returned after a deployment.
DeploymentInfo(grafanaURL, resp, document) ==
    [kind |-> "deployment", status |-> "deployed", grafana_url |-> grafanaURL,
     dashboard |-> [id |-> resp.ID, uid |-> resp.UID, url |-> resp.URL],
     dashboard_json |-> document]

\* The calls of the handler, as logged.
PrometheusMetadataCall(url, name, err) ==
    [op |-> "GetMetricMetadata", url |-> url, subject |-> name, err |-> err]

PrometheusValidateCall(url, query, err) ==
    [op |-> "ValidateQuery", url |-> url, subject |-> query, err |-> err]

GrafanaCreateCall(dashboard, url, apiKey, err) ==
    [op |-> "CreateDashboard", url |-> url, subject |-> dashboard,
     apiKey |-> apiKey, err |-> err]

\* The arguments, configurations and answers of the handler's model.
GrafanaURL == "http://test.grafana"
ConfiguredURL == "http://grafana:3000"
ConfiguredKey == "test-api-key"
PrometheusURL == "http://prometheus:9090"

DashboardConfigs ==
    {NilConfig, GrafanaConfig(FALSE, ConfiguredURL, ConfiguredKey),
     GrafanaConfig(TRUE, "", ""), GrafanaConfig(TRUE, ConfiguredURL, ""),
     GrafanaConfig(TRUE, "", ConfiguredKey),
     GrafanaConfig(TRUE, ConfiguredURL, ConfiguredKey)}

\* A panel as a caller gives it: a title and nothing else.
TestPanel ==
    [kind |-> "object", title |-> "Test Panel", type |-> "", description |-> "",
     unit |-> "", hasTargets |-> FALSE, targets |-> <<>>]

DashboardMetricEntries == {JString("api_latency"), JNumber}

RECURSIVE DashboardEntryLists(_)
DashboardEntryLists(n) ==
    IF n = 0 THEN {<<>>}
    ELSE {Append(l, e) : l \in DashboardEntryLists(n - 1), e \in DashboardMetricEntries}

\* The calls that try every combination of the checked arguments, with at
\* most one metric name.
DashboardCheckArgs ==
    [dashboard_title : {JAbsent, JNumber, JString(""), JString("Test Dashboard")},
     deploy : {JAbsent, JBool(FALSE), JBool(TRUE), JString("true")},
     grafana_url : {JAbsent, JString(""), JString(GrafanaURL)},
     metric_names : {JAbsent, JString("up"), JArray(<<>>),
                     JArray(<<JString("http_requests_total")>>)},
     prometheus_url : {JAbsent, JString(""), JString(PrometheusURL)},
     panels : {JAbsent, JString("panel"), JArray(<<>>), JArray(<<TestPanel>>),
               JArray(<<JNumber>>)}]

\* The calls with metric names, two to MaxMetrics of them.
DashboardMetricArgs ==
    [dashboard_title : {JString("Metrics Dashboard")},
     deploy : {JAbsent, JBool(TRUE)},
     grafana_url : {JAbsent},
     metric_names : {JArray(l) : l \in UNION {DashboardEntryLists(n) : n \in 2..MaxMetrics}},
     prometheus_url : {JString(PrometheusURL)},
     panels : {JAbsent}]

DashboardMetadataReplies ==
    {TransportError("connection refused"), HttpJSON(200, "success", <<>>),
     HttpJSON(200, "success", <<[Type |-> MetricTypeCounter, Help |-> MetadataHelp]>>)}

DashboardLabelsReplies == {HttpJSON(200, "success", <<"__name__", "method">>)}

QueryAccepted == HttpJSON(200, "success", <<"", "">>)
QueryRejected == HttpQueryError(400, "parse error", "bad_data")

\* The answers to the validations of one metric's queries, in order.
ValidationPatterns ==
    {<<QueryAccepted, QueryAccepted, QueryAccepted, QueryAccepted>>,
     <<QueryRejected, QueryAccepted, QueryAccepted, QueryAccepted>>,
     <<QueryAccepted, QueryAccepted, HttpMalformed(200, "invalid json"), QueryAccepted>>,
     <<QueryAccepted, QueryRejected, QueryAccepted, TransportError("timeout")>>}

GrafanaReplies ==
    {TransportError("connection refused"), HttpJSON(500, "", <<>>),
     HttpMalformed(200, "invalid json"), HttpMalformed(200, ""),
     HttpJSON(200, "success",
              <<DashboardResponse(1, "abc123", "/d/abc123/test-dashboard", "success", 1,
                                  "test-dashboard")>>)}

DashboardIdle ==
    /\ dpc = "idle"
    /\ dargs = [dashboard_title |-> JAbsent, deploy |-> JAbsent, grafana_url |-> JAbsent,
                metric_names |-> JAbsent, prometheus_url |-> JAbsent, panels |-> JAbsent]
    /\ dconfig = NilConfig
    /\ dindex = 0
    /\ dpanels = <<>>
    /\ dsuggestions = <<>>
    /\ ddoc = NoDocument
    /\ dretErr = ""
    /\ dcalls = <<>>

DashboardInit ==
    /\ dpc = "called"
    /\ \/ dargs \in DashboardCheckArgs /\ dconfig \in DashboardConfigs
       \/ /\ dargs \in DashboardMetricArgs
          /\ dconfig = GrafanaConfig(TRUE, ConfiguredURL, ConfiguredKey)
    /\ dindex = 0
    /\ dpanels = <<>>
    /\ dsuggestions = <<>>
    /\ ddoc = NoDocument
    /\ dretErr = ""
    /\ dcalls = <<>>

\* The handler up to the panel loop: the title, the deployment
\* prerequisites and the prometheus_url of a call with metric names.
DashboardCheck ==
    /\ dpc = "called"
    /\ dretErr' = dashboardPrecheck(dargs, dconfig)
    /\ dpc' = IF dashboardPrecheck(dargs, dconfig) # "" THEN "returned"
              ELSE IF hasMetricNames(dargs) THEN "generating"
              ELSE "assemble"
    /\ UNCHANGED <<dargs, dconfig, dindex, dpanels, dsuggestions, ddoc, dcalls>>
    /\ UNCHANGED notDashboardVars

\* The calls on Prometheus made for one metric whose metadata was fetched.
PanelCalls(url, name, info, verrs) ==
    LET validated == ValidatedQueries(info) IN
    << PrometheusMetadataCall(url, name, "") >>
    \o [k \in 1..Len(validated) |-> PrometheusValidateCall(url, validated[k], verrs[k])]

\* One iteration of the loop of generatePanelsFromMetrics: the next entry
\* of metricNames is skipped when it is not a string, and else gives the
\* basic panel (metadata not fetched) or the panel of its best query.
DashboardMetric ==
    /\ dpc = "generating"
    /\ dindex < Len(dargs.metric_names.elems)
    /\ dindex' = dindex + 1
    /\ LET entry == dargs.metric_names.elems[dindex + 1]
           url == dargs.prometheus_url.str
       IN IF entry.kind # "string"
          THEN UNCHANGED <<dpanels, dsuggestions, dcalls>>
          ELSE \E reply \in DashboardMetadataReplies,
                  labelsReply \in DashboardLabelsReplies,
                  vreplies \in ValidationPatterns :
                 LET r == getMetricMetadata(entry.str, reply, labelsReply)
                     verrs == [k \in 1..Len(vreplies) |-> validateQuery("", vreplies[k])]
                 IN IF r.Err # ""
                    THEN /\ dpanels' = Append(dpanels, BasicPanel(entry.str))
                         /\ dsuggestions' = <<>>
                         /\ dcalls' = Append(dcalls,
                                PrometheusMetadataCall(url, entry.str, r.Err))
                    ELSE IF Len(generateQueries(r.Value)) = 0
                    THEN /\ dpanels' = dpanels
                         /\ dsuggestions' = dsuggestions
                         /\ dcalls' = Append(dcalls,
                                PrometheusMetadataCall(url, entry.str, ""))
                    ELSE /\ dpanels' = Append(dpanels,
                                MetricPanel(entry.str, r.Value, verrs))
                         /\ dsuggestions' = enhanceQueries(r.Value, generateQueries(r.Value))
                         /\ dcalls' = dcalls \o PanelCalls(url, entry.str, r.Value, verrs)
    /\ UNCHANGED <<dpc, dargs, dconfig, ddoc, dretErr>>
    /\ UNCHANGED notDashboardVars

\* The handler after the panel loop: the generated panels put into args,
\* the panels checked, the document built and, when deployment is
\* requested, the API key checked and the dashboard sent to Grafana.
DashboardAssemble ==
    /\ \/ dpc = "assemble"
       \/ dpc = "generating" /\ dindex = Len(dargs.metric_names.elems)
    /\ dpc' = "returned"
    /\ LET generated == dpc = "generating"
           a == IF generated /\ Len(dpanels) > 0
                THEN [dargs EXCEPT !.panels = JArray(dpanels)] ELSE dargs
           document == DashboardDocument(a.dashboard_title.str, a.panels.elems)
           grafanaURL == resolveGrafanaURL(a, dconfig)
           apiKey == resolveAPIKey(dconfig)
       IN /\ dargs' = a
          /\ IF generated /\ Len(dpanels) = 0
             THEN /\ dretErr' = "failed to generate panels from metrics: no valid panels could be generated from the provided metric names"
                  /\ UNCHANGED <<ddoc, dcalls>>
             ELSE IF a.panels.kind # "array" \/ Len(a.panels.elems) = 0
             THEN /\ dretErr' = "panels are required - provide either 'panels' array or 'metric_names' with 'prometheus_url'"
                  /\ UNCHANGED <<ddoc, dcalls>>
             ELSE IF ~deployRequested(a)
             THEN /\ dretErr' = ""
                  /\ ddoc' = document
                  /\ UNCHANGED dcalls
             ELSE IF apiKey = ""
             THEN /\ dretErr' = "deployment requested but no API key configured - set GRAFANA_API_KEY"
                  /\ UNCHANGED <<ddoc, dcalls>>
             ELSE \E reply \in GrafanaReplies :
                    LET sent == Dashboard(document.dashboard, "",
                                          "Dashboard created via grafana-agent", TRUE)
                        r == CreateDashboard(sent, grafanaURL, apiKey, reply)
                    IN /\ dcalls' = Append(dcalls,
                              GrafanaCreateCall(sent, grafanaURL, apiKey, r.Err))
                       /\ IF r.Err # ""
                          THEN /\ dretErr' = "failed to deploy dashboard to Grafana: " \o r.Err
                               /\ UNCHANGED ddoc
                          ELSE /\ dretErr' = ""
                               /\ ddoc' = DeploymentInfo(grafanaURL, r.Value, document)
    /\ UNCHANGED <<dconfig, dindex, dpanels, dsuggestions>>
    /\ UNCHANGED notDashboardVars

(***************************************************************************)
(* Package skills: DeployDashboardHandler                                  *)
(***************************************************************************)

\* A JSON object of the args map: members is the list of its <<key, value>>
\* pairs.
JObject(members) == [kind |-> "object", str |-> "", elems |-> <<>>, members |-> members]

\* The preconditions of the handler, dashboard_json read before the
\* configuration.
deployPrecheck_JSONFirst(a, cfg) ==
    IF a.dashboard_json.kind # "object" \/ Len(a.dashboard_json.members) = 0
    THEN "dashboard_json is required and must be a valid object"
    ELSE IF ~cfg.nil /\ ~cfg.DeployEnabled
    THEN "grafana deployment is disabled - set GRAFANA_DEPLOY_ENABLED=true to enable dashboard deployments"
    ELSE IF resolveGrafanaURL(a, cfg) = ""
    THEN "grafana_url must be provided either as a parameter or in configuration (GRAFANA_URL)"
    ELSE IF resolveAPIKey(cfg) = ""
    THEN "grafana API key is required - set GRAFANA_API_KEY"
    ELSE ""

\* The preconditions of the handler: the error returned, "" when they pass.
\* The Grafana URL and the API key are resolved as in CreateDashboardHandler.
deployPrecheck(a, cfg) ==
    IF ~cfg.nil /\ ~cfg.DeployEnabled
    THEN "grafana deployment is disabled - set GRAFANA_DEPLOY_ENABLED=true to enable dashboard deployments"
    ELSE IF a.dashboard_json.kind # "object" \/ Len(a.dashboard_json.members) = 0
    THEN "dashboard_json is required and must be a valid object"
    ELSE IF resolveGrafanaURL(a, cfg) = ""
    THEN "grafana_url must be provided either as a parameter or in configuration (GRAFANA_URL)"
    ELSE IF resolveAPIKey(cfg) = ""
    THEN "grafana API key is required - set GRAFANA_API_KEY"
    ELSE ""

\* The grafana.Dashboard the handler sends: folder_uid, overwrite and
\* message of args, with their defaults.
deployDashboard(a) ==
    Dashboard(a.dashboard_json.members,
              IF a.folder_uid.kind = "string" THEN a.folder_uid.str ELSE "",
              IF a.message.kind = "string" /\ a.message.str # ""
              THEN a.message.str ELSE "Dashboard deployed via grafana-agent",
              IF a.overwrite.kind = "bool" THEN a.overwrite.bool ELSE TRUE)

\* The result document of a deployment.
DeploymentResult(grafanaURL, resp, message) ==
    [kind |-> "deployed", status |-> "deployed", grafana_url |-> grafanaURL,
     dashboard |-> [id |-> resp.ID, uid |-> resp.UID, url |-> resp.URL,
                    version |-> resp.Version, slug |-> resp.Slug],
     message |-> message]

\* The arguments of the handler's model.
DeployArgs ==
    [dashboard_json : {JAbsent, JString("{}"), JObject(<<>>),
                       JObject(<< <<"title", "Test Dashboard">> >>)},
     grafana_url : {JAbsent, JString(""), JString(GrafanaURL)},
     folder_uid : {JAbsent, JString("folder-1")},
     message : {JAbsent, JString(""), JString("Release 2")},
     overwrite : {JAbsent, JBool(FALSE), JBool(TRUE), JString("false")}]

DeployIdle ==
    /\ deployPc = "idle"
    /\ deployArgs = [dashboard_json |-> JAbsent, grafana_url |-> JAbsent,
                     folder_uid |-> JAbsent, message |-> JAbsent, overwrite |-> JAbsent]
    /\ deployConfig = NilConfig
    /\ deployDoc = NoDocument
    /\ deployErr = ""
    /\ deployCalls = <<>>

DeployInit ==
    /\ deployPc = "called"
    /\ deployArgs \in DeployArgs
    /\ deployConfig \in DashboardConfigs
    /\ deployDoc = NoDocument
    /\ deployErr = ""
    /\ deployCalls = <<>>

\* The handler up to the call of Grafana: its four preconditions.
DeployCheck ==
    /\ deployPc = "called"
    /\ deployErr' = deployPrecheck(deployArgs, deployConfig)
    /\ deployPc' = IF deployPrecheck(deployArgs, deployConfig) # ""
                   THEN "returned" ELSE "sending"
    /\ UNCHANGED <<deployArgs, deployConfig, deployDoc, deployCalls>>
    /\ UNCHANGED notDeployVars

\* The handler from the call of Grafana on.
DeploySend ==
    /\ deployPc = "sending"
    /\ \E reply \in GrafanaReplies :
          LET grafanaURL == resolveGrafanaURL(deployArgs, deployConfig)
              apiKey == resolveAPIKey(deployConfig)
              sent == deployDashboard(deployArgs)
              r == CreateDashboard(sent, grafanaURL, apiKey, reply)
          IN /\ deployCalls' = Append(deployCalls,
                    GrafanaCreateCall(sent, grafanaURL, apiKey, r.Err))
             /\ IF r.Err # ""
                THEN /\ deployErr' = "failed to deploy dashboard to Grafana: " \o r.Err
                     /\ UNCHANGED deployDoc
                ELSE /\ deployErr' = ""
                     /\ deployDoc' = DeploymentResult(grafanaURL, r.Value, sent.Message)
    /\ deployPc' = "returned"
    /\ UNCHANGED <<deployArgs, deployConfig>>
    /\ UNCHANGED notDeployVars

(***************************************************************************)
(* The clients: one call of a function that reads an answer of Prometheus  *)
(* or of Grafana                                                           *)
(***************************************************************************)

NoReply == [kind |-> "none"]

ClientOps ==
    {"getMetricMetadata", "getMetricLabels", "validateQuery", "CreateDashboard",
     "GetDashboard"}

ClientMetricNames ==
    {"http_requests_total", "request_duration_bucket", "memory_usage", "rpc_sum"}

ClientQueries == {"up", "rate(http_requests_total[5m"}

ClientDashboard == [title |-> "Test Dashboard"]

ClientSubjects(op) ==
    IF op \in {"getMetricMetadata", "getMetricLabels"} THEN ClientMetricNames
    ELSE IF op = "validateQuery" THEN ClientQueries
    ELSE IF op = "CreateDashboard" THEN {ClientDashboard}
    ELSE {"abc123"}

GrafanaGetReplies ==
    {RequestError("invalid URL escape"), TransportError("connection refused"),
     HttpJSON(404, "", <<>>), HttpMalformed(404, "<html>Bad Gateway</html>"), HttpJSON(500, "", <<>>),
     HttpMalformed(200, "invalid json"), HttpMalformed(200, ""),
     HttpJSON(200, "success", <<ClientDashboard>>)}

ClientIdle ==
    /\ clientPc = "idle"
    /\ clientOp = ""
    /\ clientSubject = ""
    /\ clientReply = NoReply
    /\ clientLabels = NoReply
    /\ clientResult = Returned("", "")

ClientInit ==
    /\ clientPc = "called"
    /\ clientOp \in ClientOps
    /\ clientSubject \in ClientSubjects(clientOp)
    /\ clientReply = NoReply
    /\ clientLabels = NoReply
    /\ clientResult = Returned("", "")

\* getMetricMetadata and the two answers it may read.  The answer to the
\* labels request is recorded when the request was sent.
ClientGetMetricMetadata ==
    /\ clientPc = "called"
    /\ clientOp = "getMetricMetadata"
    /\ \E reply \in MetadataReplies, labelsReply \in LabelsReplies :
           LET fetched == getMetricMetadata(clientSubject, reply, labelsReply) IN
           /\ clientReply' = reply
           /\ clientLabels' =
                  IF \E i \in DOMAIN fetched.Requests : fetched.Requests[i] = LabelsEndpoint
                  THEN labelsReply ELSE NoReply
           /\ clientResult' = fetched
    /\ clientPc' = "returned"
    /\ UNCHANGED <<clientOp, clientSubject>>
    /\ UNCHANGED notClientVars

ClientGetMetricLabels ==
    /\ clientPc = "called"
    /\ clientOp = "getMetricLabels"
    /\ \E reply \in LabelsReplies \cup {RequestError("invalid URL escape")} :
           /\ clientReply' = reply
           /\ clientResult' = getMetricLabels(clientSubject, reply)
    /\ clientPc' = "returned"
    /\ UNCHANGED <<clientOp, clientSubject, clientLabels>>
    /\ UNCHANGED notClientVars

ClientValidateQuery ==
    /\ clientPc = "called"
    /\ clientOp = "validateQuery"
    /\ \E reply \in ValidationReplies :
           /\ clientReply' = reply
           /\ clientResult' = Returned("", validateQuery(clientSubject, reply))
    /\ clientPc' = "returned"
    /\ UNCHANGED <<clientOp, clientSubject, clientLabels>>
    /\ UNCHANGED notClientVars

ClientCreateDashboard ==
    /\ clientPc = "called"
    /\ clientOp = "CreateDashboard"
    /\ \E reply \in GrafanaReplies \cup {RequestError("invalid URL escape")} :
           /\ clientReply' = reply
           /\ clientResult' =
                  CreateDashboard(Dashboard(clientSubject, "", "", FALSE), GrafanaURL,
                                  ConfiguredKey, reply)
    /\ clientPc' = "returned"
    /\ UNCHANGED <<clientOp, clientSubject, clientLabels>>
    /\ UNCHANGED notClientVars

ClientGetDashboard ==
    /\ clientPc = "called"
    /\ clientOp = "GetDashboard"
    /\ \E reply \in GrafanaGetReplies :
           /\ clientReply' = reply
           /\ clientResult' = GetDashboard(clientSubject, GrafanaURL, ConfiguredKey, reply)
    /\ clientPc' = "returned"
    /\ UNCHANGED <<clientOp, clientSubject, clientLabels>>
    /\ UNCHANGED notClientVars

(***************************************************************************)
(* The enhancer: one call of enhanceQuery                                  *)
(***************************************************************************)

EnhancerIdle ==
    /\ epc = "idle"
    /\ emetric = ""
    /\ esuggestion = NoSuggestion
    /\ eenhanced = NoSuggestion

EnhancerNames ==
    {"http_requests_total", "http_duration_bucket", "http_errors_total",
     "api_latency_bucket", "request_size_bucket", "memory_usage", "cpu_failures_total",
     "db_errors_total", "queue_depth", "rpc_bucket", "disk_percent_used"}

EnhancerPercentiles == {"0.50", "0.95", "0.99", "0.90", "0.75"}

EnhancerRanges == {"5m", "1h"}

\* The quantile query of generateHistogramQueries over a base name.
QuantileQuery(percentile, base, range) ==
    "histogram_quantile(" \o percentile \o ", rate(" \o base \o "_bucket[" \o range \o "]))"

\* Quantile queries that a caller may write by hand over the same buckets.
HandWrittenQuantileQueries(base) ==
    {"histogram_quantile(0.95, sum(rate(" \o base \o "_bucket[5m])) by (le))",
     "histogram_quantile(0.95, sum by (le) (rate(" \o base \o "_bucket[5m])))",
     "histogram_quantile(0.95, rate(" \o base \o "[5m]))",
     "histogram_quantile(0.95, increase(" \o base \o "_bucket[5m]))",
     "histogram_quantile(0.95, sum(increase(" \o base \o "_bucket[5m])))",
     "histogram_quantile(0.95, rate(" \o base \o "_bucket{job=\"api\"}[5m]))",
     "histogram_quantile(0.99, rate(" \o base \o "_bucket[5m])) > 0.95"}

PlainQueries(name) ==
    {name,
     "rate(" \o name \o "[5m])",
     "rate(" \o name \o "[1h])",
     "rate(" \o name \o "{status=~\"5..\"}[5m]) / rate(" \o name \o "[5m])",
     "rate(" \o name \o "[5m]) + increase(" \o name \o "[1h])",
     "sum(rate(" \o name \o "[5m])) by (method)",
     "increase(" \o name \o "[5m])",
     "increase(" \o name \o "[1h]) > 10",
     "avg_over_time(" \o name \o "[5m])",
     "avg(" \o name \o ")",
     "avg(avg_over_time(" \o name \o "[5m]))",
     "max(" \o name \o ")",
     "min(" \o name \o ")",
     "max(avg_over_time(" \o name \o "[5m]))"}

EnhancerQueries(name) ==
    LET base == TrimSuffix(name, "_bucket") IN
    {QuantileQuery(p, base, r) : p \in EnhancerPercentiles, r \in EnhancerRanges}
    \cup HandWrittenQuantileQueries(base)
    \cup PlainQueries(name)

VisualizationTypes == {"timeseries", "stat", "gauge", "table"}

EnhancerDescriptions == {"Current value", "Rate per second"}

EnhancerInit ==
    /\ epc = "called"
    /\ emetric \in EnhancerNames
    /\ esuggestion \in
          {QuerySuggestion(q, d, v, "value") :
              q \in EnhancerQueries(emetric), d \in EnhancerDescriptions,
              v \in VisualizationTypes}
    /\ eenhanced = NoSuggestion

\* One call of enhanceQuery.  The enhancer reads the name of the metric only.
Enhance ==
    /\ epc = "called"
    /\ eenhanced' =
          enhanceQuery(MetricInfo(emetric, inferMetricType(emetric), "", <<>>), esuggestion)
    /\ epc' = "returned"
    /\ UNCHANGED <<emetric, esuggestion>>
    /\ UNCHANGED notEnhancerVars

(***************************************************************************)
(* Specifications                                                          *)
(***************************************************************************)

vars ==
    <<engineVars, handlerVars, validateVars, dashboardVars, deployVars, clientVars,
      enhancerVars>>

\* The engine on one metric.
Init ==
    EngineInit /\ HandlerIdle /\ ValidateIdle /\ DashboardIdle /\ DeployIdle
    /\ ClientIdle /\ EnhancerIdle

Next ==
    \/ GetMetricMetadata
    \/ GenerateQueries
    \/ EnhanceQueries
    \/ GetBestQuery

Spec == Init /\ [][Next]_vars

\* One call of GeneratePromqlQueriesHandler.
InitHandler ==
    HandlerInit /\ EngineIdle /\ ValidateIdle /\ DashboardIdle /\ DeployIdle
    /\ ClientIdle /\ EnhancerIdle

NextHandler ==
    \/ HandlerValidate
    \/ HandlerMetric
    \/ HandlerReturn

SpecHandler == InitHandler /\ [][NextHandler]_vars

\* One call of ValidatePromqlQueryHandler.
InitValidate ==
    ValidateInit /\ EngineIdle /\ HandlerIdle /\ DashboardIdle /\ DeployIdle
    /\ ClientIdle /\ EnhancerIdle

NextValidate ==
    \/ ValidateCheck
    \/ ValidateRun

SpecValidate == InitValidate /\ [][NextValidate]_vars

\* One call of CreateDashboardHandler.
InitDashboard ==
    DashboardInit /\ EngineIdle /\ HandlerIdle /\ ValidateIdle /\ DeployIdle
    /\ ClientIdle /\ EnhancerIdle

NextDashboard ==
    \/ DashboardCheck
    \/ DashboardMetric
    \/ DashboardAssemble

SpecDashboard == InitDashboard /\ [][NextDashboard]_vars

\* One call of DeployDashboardHandler.
InitDeploy ==
    DeployInit /\ EngineIdle /\ HandlerIdle /\ ValidateIdle /\ DashboardIdle
    /\ ClientIdle /\ EnhancerIdle

NextDeploy ==
    \/ DeployCheck
    \/ DeploySend

SpecDeploy == InitDeploy /\ [][NextDeploy]_vars

\* One call on the Prometheus client or on the Grafana service.
InitClient ==
    ClientInit /\ EngineIdle /\ HandlerIdle /\ ValidateIdle /\ DashboardIdle
    /\ DeployIdle /\ EnhancerIdle

NextClient ==
    \/ ClientGetMetricMetadata
    \/ ClientGetMetricLabels
    \/ ClientValidateQuery
    \/ ClientCreateDashboard
    \/ ClientGetDashboard

SpecClient == InitClient /\ [][NextClient]_vars

\* One call of enhanceQuery.
InitEnhancer ==
    EnhancerInit /\ EngineIdle /\ HandlerIdle /\ ValidateIdle /\ DashboardIdle
    /\ DeployIdle /\ ClientIdle

NextEnhancer == Enhance

SpecEnhancer == InitEnhancer /\ [][NextEnhancer]_vars

(***************************************************************************)
(* Properties of the classifier, the generator and the selector            *)
(***************************************************************************)

\* The MetricInfo comes from the classifier: Prometheus had no metadata.
Inferred ==
    /\ stage \notin {"start", "failed"}
    /\ metricInfo.Help = "No metadata available"

MatchesCounterRule(n) ==
    \/ HasSuffix(n, "_total") \/ Contains(n, "_count")
    \/ Contains(n, "requests") \/ Contains(n, "errors")

MatchesHistogramRule(n) ==
    Contains(n, "_bucket") \/ Contains(n, "_duration") \/ Contains(n, "_latency")

MatchesGaugeRule(n) ==
    \/ Contains(n, "size") \/ Contains(n, "usage")
    \/ Contains(n, "memory") \/ Contains(n, "cpu")

\* C1: the inferred type is decided by the first matching rule in the order
\* counter, histogram, gauge, else unknown; so a name ending in _total is a
\* counter, and a name matching a counter and a histogram pattern is a
\* counter.
C1_InferFirstMatch ==
    Inferred =>
        LET n == metricInfo.Name
            t == metricInfo.Type
        IN /\ MatchesCounterRule(n) => t = "counter"
           /\ ~MatchesCounterRule(n) /\ MatchesHistogramRule(n) => t = "histogram"
           /\ ~MatchesCounterRule(n) /\ ~MatchesHistogramRule(n) /\ MatchesGaugeRule(n)
                => t = "gauge"
           /\ ~MatchesCounterRule(n) /\ ~MatchesHistogramRule(n) /\ ~MatchesGaugeRule(n)
                => t = "unknown"
           /\ HasSuffix(n, "_total") => t = "counter"
           /\ MatchesCounterRule(n) /\ MatchesHistogramRule(n) => t # "histogram"

C1_Witness ==
    /\ Inferred
    /\ metricInfo.Name = "request_count_bucket"
    /\ metricInfo.Type = "counter"

\* C2: the generator's list has at least two suggestions for every
\* MetricInfo, and its first element is the primary query of the type.
C2_GenerateNonEmpty ==
    stage = "generated" =>
        LET n == metricInfo.Name
            q == suggestions[1].Query
        IN /\ Len(suggestions) >= 2
           /\ metricInfo.Type = "counter" => q = "rate(" \o n \o "[5m])"
           /\ metricInfo.Type = "gauge" => q = n
           /\ metricInfo.Type = "histogram" =>
                /\ HasPrefix(q, "histogram_quantile(0.50, rate(")
                /\ HasSuffix(q, "_bucket[5m]))")
           /\ metricInfo.Type = "summary" =>
                q = "rate(" \o TrimSuffix(TrimSuffix(n, "_count"), "_sum") \o "_count[5m])"

C2_Witness ==
    /\ stage = "generated"
    /\ metricInfo.Name = ""
    /\ metricInfo.Type = "info"
    /\ metricInfo.Labels = <<>>
    /\ Len(suggestions) = 2

\* The labels that do not start with "__", in label order.
NonReserved(labels) == SelectSeq(labels, LAMBDA l : ~HasPrefix(l, "__"))

\* C3: a counter yields rate(<name>[5m]), increase(<name>[1h]) and then one
\* sum by (<label>) (rate(<name>[5m])) per label not starting with "__", in
\* label order: 2 + the number of such labels suggestions, none of them
\* grouped by a label prefixed with "__".
C3_CounterQueries ==
    (stage = "generated" /\ metricInfo.Type = "counter") =>
        LET n == metricInfo.Name
            eligible == NonReserved(metricInfo.Labels)
        IN /\ Len(suggestions) = 2 + Len(eligible)
           /\ suggestions[1].Query = "rate(" \o n \o "[5m])"
           /\ suggestions[1].VisualizationType = "timeseries"
           /\ suggestions[1].YAxisLabel = "per second"
           /\ suggestions[2].Query = "increase(" \o n \o "[1h])"
           /\ suggestions[2].VisualizationType = "timeseries"
           /\ suggestions[2].YAxisLabel = "total"
           /\ \A k \in 1..Len(eligible) :
                suggestions[2 + k].Query =
                    "sum by (" \o eligible[k] \o ") (rate(" \o n \o "[5m]))"
           /\ \A i \in 1..Len(suggestions) : ~Contains(suggestions[i].Query, "by (__")

C3_Witness ==
    /\ stage = "generated"
    /\ metricInfo.Type = "counter"
    /\ metricInfo.Name = "http_requests_total"
    /\ metricInfo.Labels = <<"__name__", "method">>
    /\ Len(suggestions) = 3
    /\ suggestions[3].Query = "sum by (method) (rate(http_requests_total[5m]))"

\* C4: a histogram yields exactly five timeseries suggestions, whatever the
\* labels: the 0.50, 0.95 and 0.99 quantiles of <base>_bucket, the rate of
\* <base>_count and the ratio of the rates of <base>_sum and <base>_count,
\* where base is the name without a trailing _bucket, then _count, then _sum.
C4_HistogramQueries ==
    (stage = "generated" /\ metricInfo.Type = "histogram") =>
        LET n1 == TrimSuffix(metricInfo.Name, "_bucket")
            n2 == TrimSuffix(n1, "_count")
            b == TrimSuffix(n2, "_sum")
        IN /\ Len(suggestions) = 5
           /\ suggestions[1].Query = "histogram_quantile(0.50, rate(" \o b \o "_bucket[5m]))"
           /\ suggestions[2].Query = "histogram_quantile(0.95, rate(" \o b \o "_bucket[5m]))"
           /\ suggestions[3].Query = "histogram_quantile(0.99, rate(" \o b \o "_bucket[5m]))"
           /\ suggestions[4].Query = "rate(" \o b \o "_count[5m])"
           /\ suggestions[5].Query =
                "rate(" \o b \o "_sum[5m]) / rate(" \o b \o "_count[5m])"
           /\ \A i \in 1..5 : suggestions[i].VisualizationType = "timeseries"
           /\ metricInfo.Name = "http_duration_bucket" =>
                suggestions[1].Query =
                    "histogram_quantile(0.50, rate(http_duration_bucket[5m]))"

C4_Witness ==
    /\ stage = "generated"
    /\ metricInfo.Type = "histogram"
    /\ metricInfo.Name = "http_duration_bucket"
    /\ metricInfo.Labels # <<>>
    /\ suggestions[1].Query = "histogram_quantile(0.50, rate(http_duration_bucket[5m]))"

\* The rate and average queries every summary yields first.
SummaryRateAndAverage ==
    LET b == TrimSuffix(TrimSuffix(metricInfo.Name, "_count"), "_sum") IN
    /\ Len(suggestions) >= 2
    /\ suggestions[1].Query = "rate(" \o b \o "_count[5m])"
    /\ suggestions[2].Query = "rate(" \o b \o "_sum[5m]) / rate(" \o b \o "_count[5m])"

\* The four quantile suggestions at positions 3 to 6, and nothing after.
SummaryQuantileSuggestions ==
    LET b == TrimSuffix(TrimSuffix(metricInfo.Name, "_count"), "_sum") IN
    /\ Len(suggestions) = 6
    /\ suggestions[3].Query = b \o "{quantile=\"0.5\"}"
    /\ suggestions[4].Query = b \o "{quantile=\"0.9\"}"
    /\ suggestions[5].Query = b \o "{quantile=\"0.95\"}"
    /\ suggestions[6].Query = b \o "{quantile=\"0.99\"}"

\* C5 as claimed: every summary, whatever its name, yields the rate query,
\* the average query and the four quantile suggestions, six in total.
C5_SummaryAlwaysSix ==
    (stage = "generated" /\ metricInfo.Type = "summary") =>
        (SummaryRateAndAverage /\ SummaryQuantileSuggestions)

\* C5 amended: every summary yields the rate query and the average query;
\* the four quantile suggestions follow exactly when the name contains
\* _count or _sum, and otherwise the list has these two suggestions only.
C5_SummaryQuantilesWhenNamed ==
    (stage = "generated" /\ metricInfo.Type = "summary") =>
        /\ SummaryRateAndAverage
        /\ IF Contains(metricInfo.Name, "_count") \/ Contains(metricInfo.Name, "_sum")
           THEN SummaryQuantileSuggestions
           ELSE Len(suggestions) = 2

C5_Witness ==
    /\ stage = "generated"
    /\ metricInfo.Type = "summary"
    /\ metricInfo.Name = "api_latency_sum_count"
    /\ Len(suggestions) = 6
    /\ suggestions[6].Query = "api_latency{quantile=\"0.99\"}"

\* C6: the selector returns the first element of a non-empty list and the
\* fixed fallback "up" for an empty one: the query selected in the chain is
\* the first of the enhanced list, and getBestQuery applied to the empty
\* list gives the fallback and to every tail of the enhanced list the first
\* element of that tail.
C6_SelectFirstOrFallback ==
    stage = "selected" =>
        /\ IF Len(enhanced) = 0
           THEN best = [Query |-> "up", Description |-> "Default query",
                        VisualizationType |-> "timeseries", YAxisLabel |-> "value"]
           ELSE best = enhanced[1]
        /\ getBestQuery(<<>>) =
              [Query |-> "up", Description |-> "Default query",
               VisualizationType |-> "timeseries", YAxisLabel |-> "value"]
        /\ \A k \in 1..Len(enhanced) :
              getBestQuery(SubSeq(enhanced, k, Len(enhanced))) = enhanced[k]

C6_Witness ==
    /\ stage = "selected"
    /\ Len(enhanced) > 1
    /\ best = enhanced[1]
    /\ best # enhanced[Len(enhanced)]

(***************************************************************************)
(* Properties of the enhancer                                              *)
(***************************************************************************)

\* C7: the enhanced list is the enhanced copies of the input, in input
\* order, followed by the contextual queries of the MetricInfo; it is never
\* shorter than the input.  The same holds of enhanceQueries applied to the
\* empty list and to every prefix of the generator's list.
C7_EnhanceAppends ==
    stage \in {"enhanced", "selected"} =>
        LET contextual == generateContextualQueries(metricInfo) IN
        /\ Len(enhanced) = Len(suggestions) + Len(contextual)
        /\ Len(enhanced) >= Len(suggestions)
        /\ \A i \in 1..Len(suggestions) :
              enhanced[i] = enhanceQuery(metricInfo, suggestions[i])
        /\ \A j \in 1..Len(contextual) :
              enhanced[Len(suggestions) + j] = contextual[j]
        /\ enhanceQueries(metricInfo, <<>>) = contextual
        /\ \A n \in 0..Len(suggestions) :
              enhanceQueries(metricInfo, SubSeq(suggestions, 1, n))
                 = SubSeq(enhanced, 1, n) \o contextual

C7_Witness ==
    /\ stage = "enhanced"
    /\ Len(suggestions) = 4
    /\ Len(enhanced) = 7
    /\ enhanced[1].Query # suggestions[1].Query

\* C8: a step of enhanceQueries leaves the MetricInfo and the input list as
\* they were, and every enhanced copy keeps the y-axis label of its source.
C8_EnhanceKeepsInputs ==
    [][(stage # "enhanced" /\ stage' = "enhanced") =>
          /\ metricInfo' = metricInfo
          /\ suggestions' = suggestions
          /\ \A i \in 1..Len(suggestions) :
                enhanced'[i].YAxisLabel = suggestions[i].YAxisLabel]_vars

C8_Witness ==
    /\ stage = "enhanced"
    /\ Len(suggestions) > 0
    /\ enhanced[1].Query # suggestions[1].Query
    /\ enhanced[1].Description # suggestions[1].Description
    /\ enhanced[1].YAxisLabel = suggestions[1].YAxisLabel
    /\ enhanced[1].YAxisLabel # ""

(***************************************************************************)
(* Properties of GeneratePromqlQueriesHandler                              *)
(***************************************************************************)

\* The arguments pass the handler's checks as the claims word them.
ValidCall ==
    /\ args.prometheus_url.kind = "string"
    /\ args.prometheus_url.str # ""
    /\ args.metric_names.kind = "array"
    /\ Len(args.metric_names.elems) > 0

\* The string-typed entries of metric_names, in input order.
StringNames ==
    LET strs == SelectSeq(args.metric_names.elems, LAMBDA e : e.kind = "string")
    IN [i \in 1..Len(strs) |-> strs[i].str]

\* The metadata fetches made so far, in order.
Fetches == SelectSeq(calls, LAMBDA c : c.op = "GetMetricMetadata")

\* C9: a valid call returns success with one result per string-typed entry
\* of metric_names, in input order; the result of a metric whose metadata
\* fetch failed, and only that one, carries the error "failed to get
\* metadata: ...", and every other result is what its own fetch gives.
C9_PartialFailure ==
    (hpc = "returned" /\ ValidCall) =>
        /\ retErr = ""
        /\ Len(results) = Len(StringNames)
        /\ Len(Fetches) = Len(StringNames)
        /\ \A i \in 1..Len(results) :
              /\ results[i].MetricName = StringNames[i]
              /\ Fetches[i].metric = StringNames[i]
              /\ (results[i].Error # "") <=> (Fetches[i].err # "")
              /\ Fetches[i].err # "" =>
                    results[i].Error = "failed to get metadata: " \o Fetches[i].err
              /\ Fetches[i].err = "" =>
                    /\ results[i].MetricType = Fetches[i].info.Type
                    /\ results[i].MetricHelp = Fetches[i].info.Help
                    /\ results[i].Labels = Fetches[i].info.Labels
                    /\ results[i].Suggestions = generateQueries(Fetches[i].info)

C9_Witness ==
    /\ hpc = "returned"
    /\ ValidCall
    /\ Len(args.metric_names.elems) = 2
    /\ Len(results) = 2
    /\ results[1].Error = "failed to get metadata: prometheus returned status 503"
    /\ results[2].Error = ""
    /\ Len(results[2].Suggestions) > 0

\* C10: malformed arguments fail the request before any Prometheus call,
\* the first failing check in the order prometheus_url, metric_names
\* missing, not an array, empty deciding the message; arguments that pass
\* never yield a request-level error, whatever happens per metric.
C10_ValidationOrder ==
    hpc = "returned" =>
        LET u == args.prometheus_url
            m == args.metric_names
        IN IF u.kind # "string" \/ u.str = ""
           THEN retErr = "prometheus_url is required and must be a string" /\ calls = <<>>
           ELSE IF m.kind = "absent"
           THEN retErr = "metric_names is required" /\ calls = <<>>
           ELSE IF m.kind # "array"
           THEN retErr = "metric_names must be an array" /\ calls = <<>>
           ELSE IF Len(m.elems) = 0
           THEN retErr = "metric_names cannot be empty" /\ calls = <<>>
           ELSE retErr = ""

C10_Witness ==
    /\ hpc = "returned"
    /\ args.prometheus_url = JNumber
    /\ args.metric_names = JArray(<<>>)
    /\ retErr = "prometheus_url is required and must be a string"
    /\ calls = <<>>

(***************************************************************************)
(* Properties of ValidatePromqlQueryHandler                                *)
(***************************************************************************)

\* C11: with a non-empty prometheus_url and a non-empty query the handler
\* returns a response and no request-level error; valid is true exactly when
\* ValidateQuery returned no error, error is the message of that error when
\* valid is false and is absent when valid is true, for a rejected query as
\* for a failed connection.  A request-level error is returned only for a
\* missing or empty prometheus_url or query.
C11_ValidateReportsOutcome ==
    vpc = "returned" =>
        LET u == vargs.prometheus_url
            q == vargs.query
            wellFormed == /\ u.kind = "string" /\ u.str # ""
                          /\ q.kind = "string" /\ q.str # ""
        IN /\ wellFormed <=> vretErr = ""
           /\ wellFormed =>
                /\ Len(vcalls) = 1
                /\ vresponse.kind = "ValidateQueryResponse"
                /\ vresponse.prometheus_url = u.str
                /\ vresponse.query = q.str
                /\ vresponse.valid <=> vcalls[1].err = ""
                /\ vresponse.valid => vresponse.error = JAbsent
                /\ ~vresponse.valid => vresponse.error = JString(vcalls[1].err)
           /\ ~wellFormed => vresponse = NoDocument /\ vcalls = <<>>

C11_Witness ==
    /\ vpc = "returned"
    /\ vretErr = ""
    /\ vresponse.kind = "ValidateQueryResponse"
    /\ ~vresponse.valid
    /\ vresponse.error = JString("failed to validate query: connection refused")

C11_WitnessSyntax ==
    /\ vpc = "returned"
    /\ vretErr = ""
    /\ vresponse.kind = "ValidateQueryResponse"
    /\ ~vresponse.valid
    /\ vresponse.error =
          JString("query validation failed: parse error: unclosed left bracket (bad_data)")

(***************************************************************************)
(* Properties of CreateDashboardHandler                                    *)
(***************************************************************************)

\* The calls of the Grafana CreateDashboard operation made so far.
GrafanaCreates == SelectSeq(dcalls, LAMBDA c : c.op = "CreateDashboard")

\* The dashboard_title of the call is a non-empty string.
TitleGiven == dargs.dashboard_title.kind = "string" /\ dargs.dashboard_title.str # ""

\* The deploy argument of the call is the boolean true.
DeployTrue == dargs.deploy = JBool(TRUE)

\* The Grafana URL the call resolves to: the non-empty grafana_url argument,
\* else the configured URL.
ResolvedURL ==
    IF dargs.grafana_url.kind = "string" /\ dargs.grafana_url.str # ""
    THEN dargs.grafana_url.str
    ELSE IF dconfig.nil THEN "" ELSE dconfig.URL

\* C12: Grafana's CreateDashboard is called at most once in a call of the
\* handler, and only with deploy the boolean true, a configuration with
\* DeployEnabled true, a non-empty resolved Grafana URL and a non-empty
\* configured API key; with deploy true and DeployEnabled false the call
\* fails with the "deployment is disabled" error, and with deploy absent or
\* false the dashboard document is what is returned; Grafana is called in
\* neither case.
C12_DeployOnlyWhenEnabled ==
    /\ Len(GrafanaCreates) <= 1
    /\ Len(GrafanaCreates) = 1 =>
          /\ DeployTrue
          /\ ~dconfig.nil /\ dconfig.DeployEnabled
          /\ ResolvedURL # "" /\ GrafanaCreates[1].url = ResolvedURL
          /\ dconfig.APIKey # "" /\ GrafanaCreates[1].apiKey = dconfig.APIKey
    /\ (dpc = "returned" /\ TitleGiven /\ DeployTrue
            /\ ~dconfig.nil /\ ~dconfig.DeployEnabled) =>
          /\ dretErr = "grafana deployment is disabled - set GRAFANA_DEPLOY_ENABLED=true to enable dashboard deployments"
          /\ dcalls = <<>>
          /\ ddoc = NoDocument
    /\ (dpc = "returned" /\ dargs.deploy \in {JAbsent, JBool(FALSE)}) =>
          /\ GrafanaCreates = <<>>
          /\ dretErr = "" => ddoc.kind = "dashboard"
          /\ (/\ TitleGiven
              /\ dargs.metric_names.kind # "array"
              /\ dargs.panels.kind = "array" /\ Len(dargs.panels.elems) > 0)
                => (dretErr = "" /\ ddoc.kind = "dashboard")

C12_Witness ==
    /\ dpc = "returned"
    /\ dargs.grafana_url = JString(GrafanaURL)
    /\ dconfig = GrafanaConfig(TRUE, ConfiguredURL, ConfiguredKey)
    /\ Len(GrafanaCreates) = 1
    /\ GrafanaCreates[1].url = GrafanaURL
    /\ dretErr = ""
    /\ ddoc.kind = "deployment"

\* No prerequisite of a deployment fails before the panels are read:
\* deployment is not requested, or it is not disabled and a Grafana URL is
\* resolved.
DeployPrerequisitesPass ==
    DeployTrue => ((dconfig.nil \/ dconfig.DeployEnabled) /\ ResolvedURL # "")

\* C13: a call without a non-empty string dashboard_title fails first, with
\* the "dashboard_title is required" error; with a title and no failing
\* deployment prerequisite, a call whose metric_names is absent or empty and
\* whose panels is absent, not an array or empty fails with the "panels are
\* required" error, and a call with metric names and no non-empty
\* prometheus_url fails with the "prometheus_url is required" error; no
\* dashboard is emitted in any of these cases.
C13_PanelsRequired ==
    dpc = "returned" =>
        /\ ~TitleGiven =>
              /\ dretErr = "dashboard_title is required and must be a string"
              /\ ddoc = NoDocument /\ dcalls = <<>>
        /\ (/\ TitleGiven /\ DeployPrerequisitesPass
            /\ \/ dargs.metric_names.kind = "absent"
               \/ dargs.metric_names = JArray(<<>>)
            /\ \/ dargs.panels.kind # "array"
               \/ dargs.panels = JArray(<<>>)) =>
              /\ dretErr = "panels are required - provide either 'panels' array or 'metric_names' with 'prometheus_url'"
              /\ ddoc = NoDocument /\ dcalls = <<>>
        /\ (/\ TitleGiven /\ DeployPrerequisitesPass
            /\ dargs.metric_names.kind = "array" /\ Len(dargs.metric_names.elems) > 0
            /\ (dargs.prometheus_url.kind # "string" \/ dargs.prometheus_url.str = "")) =>
              /\ dretErr = "prometheus_url is required when using metric_names"
              /\ ddoc = NoDocument /\ dcalls = <<>>

C13_Witness ==
    /\ dpc = "returned"
    /\ dargs.dashboard_title = JString("Test Dashboard")
    /\ dargs.deploy = JBool(TRUE)
    /\ dconfig = GrafanaConfig(TRUE, ConfiguredURL, "")
    /\ dargs.metric_names = JAbsent
    /\ dargs.panels = JArray(<<>>)
    /\ dretErr = "panels are required - provide either 'panels' array or 'metric_names' with 'prometheus_url'"

C13_WitnessMetricNames ==
    /\ dpc = "returned"
    /\ dargs.metric_names = JArray(<<JString("http_requests_total")>>)
    /\ dargs.panels = JArray(<<TestPanel>>)
    /\ dargs.prometheus_url = JAbsent
    /\ dretErr = "prometheus_url is required when using metric_names"

(***************************************************************************)
(* Properties of DeployDashboardHandler                                    *)
(***************************************************************************)

\* The grafana_url argument of the call is a non-empty string.
DeployURLGiven ==
    deployArgs.grafana_url.kind = "string" /\ deployArgs.grafana_url.str # ""

\* C14: the preconditions are read in the order deployment disabled,
\* dashboard_json missing, not an object or empty, no Grafana URL from the
\* argument or the configuration, no API key configured; the first that
\* fails gives the error and Grafana is not called.  When all pass,
\* CreateDashboard is called exactly once, with the grafana_url argument if
\* it is given and else the configured URL, with overwrite true unless the
\* argument is a boolean, and a failure of Grafana is returned as "failed to
\* deploy dashboard to Grafana: <cause>".
C14_DeployPreconditionOrder ==
    deployPc = "returned" =>
        LET j == deployArgs.dashboard_json
            configured == ~deployConfig.nil
        IN IF configured /\ ~deployConfig.DeployEnabled
           THEN /\ deployErr = "grafana deployment is disabled - set GRAFANA_DEPLOY_ENABLED=true to enable dashboard deployments"
                /\ deployCalls = <<>>
           ELSE IF j.kind # "object" \/ j.members = <<>>
           THEN /\ deployErr = "dashboard_json is required and must be a valid object"
                /\ deployCalls = <<>>
           ELSE IF ~DeployURLGiven /\ (~configured \/ deployConfig.URL = "")
           THEN /\ deployErr = "grafana_url must be provided either as a parameter or in configuration (GRAFANA_URL)"
                /\ deployCalls = <<>>
           ELSE IF ~configured \/ deployConfig.APIKey = ""
           THEN /\ deployErr = "grafana API key is required - set GRAFANA_API_KEY"
                /\ deployCalls = <<>>
           ELSE /\ Len(deployCalls) = 1
                /\ deployCalls[1].op = "CreateDashboard"
                /\ deployCalls[1].url = IF DeployURLGiven THEN deployArgs.grafana_url.str
                                         ELSE deployConfig.URL
                /\ deployCalls[1].apiKey = deployConfig.APIKey
                /\ deployCalls[1].subject.Dashboard = j.members
                /\ deployCalls[1].subject.Overwrite =
                      (IF deployArgs.overwrite.kind = "bool"
                       THEN deployArgs.overwrite.bool ELSE TRUE)
                /\ IF deployCalls[1].err # ""
                   THEN /\ deployErr = "failed to deploy dashboard to Grafana: "
                                           \o deployCalls[1].err
                        /\ deployDoc = NoDocument
                   ELSE /\ deployErr = ""
                        /\ deployDoc.kind = "deployed"

C14_Witness ==
    /\ deployPc = "returned"
    /\ deployArgs.grafana_url = JString(GrafanaURL)
    /\ deployConfig = GrafanaConfig(TRUE, ConfiguredURL, ConfiguredKey)
    /\ deployArgs.overwrite = JAbsent
    /\ Len(deployCalls) = 1
    /\ deployCalls[1].url = GrafanaURL
    /\ deployCalls[1].subject.Overwrite
    /\ deployErr = "failed to deploy dashboard to Grafana: grafana returned status 500"

C14_WitnessDisabledFirst ==
    /\ deployPc = "returned"
    /\ deployArgs.dashboard_json = JAbsent
    /\ deployConfig = GrafanaConfig(FALSE, ConfiguredURL, ConfiguredKey)
    /\ deployErr = "grafana deployment is disabled - set GRAFANA_DEPLOY_ENABLED=true to enable dashboard deployments"

(***************************************************************************)
(* Properties of the Prometheus client and of the Grafana service          *)
(***************************************************************************)

\* The answer is read to its end: a status 200 and a body that decodes to a
\* success envelope.
Succeeded(reply) ==
    reply.kind = "http" /\ reply.code = 200 /\ reply.decodable
        /\ reply.status = "success"

\* The answer has come with a body that is not JSON.
MalformedBody(reply) == reply.kind = "http" /\ ~reply.decodable

\* What a function returns beside an error.
ZeroValue(op) ==
    IF op = "getMetricMetadata" THEN NilMetricInfo
    ELSE IF op = "getMetricLabels" THEN <<>>
    ELSE IF op = "validateQuery" THEN ""
    ELSE IF op = "CreateDashboard" THEN NilDashboardResponse
    ELSE NilDashboard

MetadataReturned == clientPc = "returned" /\ clientOp = "getMetricMetadata"

\* C15: when the metadata answer is a success without an entry for the
\* metric, getMetricMetadata returns the type inferred from the name, the
\* help "No metadata available" and no labels, sends no labels request and
\* returns no error; when there is an entry and the labels fetch fails for
\* any reason, it returns the reported type and help with no labels and no
\* error.
C15_MetadataDegrades ==
    MetadataReturned /\ Succeeded(clientReply) =>
        IF clientReply.data = <<>>
        THEN /\ clientResult.Err = ""
             /\ clientResult.Value =
                    MetricInfo(clientSubject, inferMetricType(clientSubject),
                               "No metadata available", <<>>)
             /\ clientResult.Requests = <<MetadataEndpoint>>
             /\ clientLabels = NoReply
        ELSE /\ clientResult.Requests = <<MetadataEndpoint, LabelsEndpoint>>
             /\ ~Succeeded(clientLabels) =>
                    /\ clientResult.Err = ""
                    /\ clientResult.Value =
                           MetricInfo(clientSubject, clientReply.data[1].Type,
                                      clientReply.data[1].Help, <<>>)

C15_Witness ==
    /\ MetadataReturned
    /\ clientSubject = "request_duration_bucket"
    /\ clientReply = HttpJSON(200, "success", <<>>)
    /\ clientLabels = NoReply
    /\ clientResult.Err = ""
    /\ clientResult.Value.Type = MetricTypeHistogram
    /\ clientResult.Value.Help = "No metadata available"

C15_WitnessLabelsFail ==
    /\ MetadataReturned
    /\ clientReply = HttpJSON(200, "success",
                              <<[Type |-> MetricTypeCounter, Help |-> MetadataHelp]>>)
    /\ clientLabels = TransportError("connection reset")
    /\ clientResult.Err = ""
    /\ clientResult.Value.Type = MetricTypeCounter
    /\ clientResult.Value.Labels = <<>>

\* C16 as stated: a body that is not JSON, in any answer a function has
\* read from Prometheus or from Grafana, makes the function return an error.
C16_MalformedAlwaysFails ==
    clientPc = "returned" /\ (MalformedBody(clientReply) \/ MalformedBody(clientLabels))
        => clientResult.Err # ""

\* C16: a body that is not JSON makes the function that sent the request
\* return an error (getMetricMetadata for the metadata answer,
\* getMetricLabels, validateQuery, CreateDashboard, GetDashboard), with no
\* value; getMetricMetadata drops the error of its labels request and
\* returns the metric with no labels and no error.
C16_MalformedFailsTheRequest ==
    clientPc = "returned" =>
        /\ MalformedBody(clientReply) =>
               /\ clientResult.Err # ""
               /\ clientResult.Value = ZeroValue(clientOp)
        /\ MalformedBody(clientLabels) =>
               /\ clientOp = "getMetricMetadata"
               /\ clientResult.Err = ""
               /\ clientResult.Value.Labels = <<>>

C16_Witness ==
    /\ clientPc = "returned"
    /\ clientOp = "getMetricLabels"
    /\ clientReply = HttpMalformed(200, "<html>Bad Gateway</html>")
    /\ clientResult.Err = "invalid character '<' looking for beginning of value"

C16_WitnessLabelsDropped ==
    /\ MetadataReturned
    /\ Succeeded(clientReply)
    /\ clientLabels = HttpMalformed(200, "")
    /\ clientResult.Err = ""
    /\ clientResult.Value.Labels = <<>>

(***************************************************************************)
(* Properties of the enhancer on one suggestion                            *)
(***************************************************************************)

Enhanced == epc = "returned"

\* The name makes the metric a high-frequency one for optimizeQuery.
HighFrequency == Contains(emetric, "request") \/ Contains(emetric, "http")

\* The [5m] -> [2m] rule applies to the suggestion's query.
RangeRuleApplies ==
    Contains(esuggestion.Query, "rate(") /\ Contains(esuggestion.Query, "[5m]")
        /\ HighFrequency

\* Every closing parenthesis of s closes an open one and none stays open.
RECURSIVE ParenDepth(_, _, _)
ParenDepth(s, i, depth) ==
    IF depth < 0 THEN depth
    ELSE IF i > Len(s) THEN depth
    ELSE IF SubSeq(s, i, i) = "(" THEN ParenDepth(s, i + 1, depth + 1)
    ELSE IF SubSeq(s, i, i) = ")" THEN ParenDepth(s, i + 1, depth - 1)
    ELSE ParenDepth(s, i + 1, depth)

Balanced(s) == ParenDepth(s, 1, 0) = 0

EnhancerBases == {TrimSuffix(n, "_bucket") : n \in EnhancerNames}

\* C17 as stated: for a query histogram_quantile(<p>, rate(<N>_bucket[<R>])),
\* optimizeQuery returns
\* histogram_quantile(<p>, sum(rate(<N>_bucket[<R'>])) by (le)), whose
\* parentheses are balanced, R' being R after the [5m] -> [2m] rule.
C17_HistogramRewriteBalanced ==
    Enhanced =>
        \A p \in EnhancerPercentiles, base \in EnhancerBases, r \in EnhancerRanges :
            esuggestion.Query = QuantileQuery(p, base, r) =>
                /\ eenhanced.Query =
                      "histogram_quantile(" \o p \o ", sum(rate(" \o base \o "_bucket["
                          \o (IF r = "5m" /\ HighFrequency THEN "2m" ELSE r)
                          \o "])) by (le))"
                /\ Balanced(eenhanced.Query)

\* The suggestion's query after the [5m] -> [2m] rule alone.
RangeRuleOnly ==
    IF RangeRuleApplies THEN ReplaceAll(esuggestion.Query, "[5m]", "[2m]")
    ELSE esuggestion.Query

\* The text the histogram rewrite looks for is in the suggestion's query.
BucketRateOccurs ==
    Contains(esuggestion.Query,
             "rate(" \o extractMetricNameFromHistogramQuery(esuggestion.Query)
                 \o "_bucket[")

\* C18 as stated: a histogram_quantile query in which the text
\* rate(<extracted name>_bucket[ does not occur, or which already has
\* sum(rate( or sum by, or which has no _bucket, comes back from
\* optimizeQuery unchanged apart from the [5m] -> [2m] rule.
C18_RewriteSkipsOnMismatch ==
    /\ Enhanced
    /\ Contains(esuggestion.Query, "histogram_quantile")
    /\ \/ ~BucketRateOccurs
       \/ Contains(esuggestion.Query, "sum(rate(")
       \/ Contains(esuggestion.Query, "sum by")
       \/ ~Contains(esuggestion.Query, "_bucket")
    => eenhanced.Query = RangeRuleOnly

\* The percentile word of the first of 0.50, 0.95, 0.99, 0.90 in the query.
PercentileWord(query) ==
    IF Contains(query, "0.50") THEN "50th"
    ELSE IF Contains(query, "0.95") THEN "95th"
    ELSE IF Contains(query, "0.99") THEN "99th"
    ELSE IF Contains(query, "0.90") THEN "90th"
    ELSE ""

\* The number of the first description rule that matches, 7 when none does.
FirstDescriptionRule ==
    LET query == esuggestion.Query IN
    IF Contains(emetric, "http") /\ Contains(query, "rate(") THEN 1
    ELSE IF (Contains(emetric, "error") \/ Contains(emetric, "fail"))
            /\ Contains(query, "rate(") THEN 2
    ELSE IF Contains(emetric, "memory") \/ Contains(emetric, "cpu") THEN 3
    ELSE IF Contains(emetric, "latency") \/ Contains(emetric, "duration") THEN 4
    ELSE IF Contains(query, "histogram_quantile") /\ PercentileWord(query) # "" THEN 5
    ELSE IF Contains(query, "increase(") THEN 6
    ELSE 7

\* C19: the description returned is that of the first matching rule, in the
\* order HTTP, Error, Resource Usage, Performance, percentile, Total; when
\* no rule matches it is the suggestion's description.  The HTTP, Error and
\* Total prefixes are followed by the description in lower case, the
\* Resource Usage and Performance prefixes by the description as it is.
C19_DescriptionFirstMatch ==
    Enhanced =>
        LET rule == FirstDescriptionRule
            desc == esuggestion.Description
            word == PercentileWord(esuggestion.Query)
        IN eenhanced.Description =
              (IF rule = 1 THEN "HTTP " \o ToLower(desc)
               ELSE IF rule = 2 THEN "Error " \o ToLower(desc)
               ELSE IF rule = 3 THEN "Resource Usage: " \o desc
               ELSE IF rule = 4 THEN "Performance: " \o desc
               ELSE IF rule = 5
               THEN word \o " percentile (" \o word \o " of requests are faster)"
               ELSE IF rule = 6 THEN "Total " \o ToLower(desc)
               ELSE desc)

\* A quantile query on a name with "latency": the Performance prefix, not
\* the percentile text.
C19_Witness ==
    /\ Enhanced
    /\ emetric = "api_latency_bucket"
    /\ esuggestion.Query = QuantileQuery("0.95", "api_latency", "5m")
    /\ esuggestion.Description = "Current value"
    /\ eenhanced.Description = "Performance: Current value"

C19_WitnessResource ==
    /\ Enhanced
    /\ emetric = "memory_usage"
    /\ esuggestion = QuerySuggestion("memory_usage", "Current value", "timeseries", "value")
    /\ eenhanced.Description = "Resource Usage: Current value"

C19_WitnessPercentile ==
    /\ Enhanced
    /\ emetric = "rpc_bucket"
    /\ esuggestion.Query = "histogram_quantile(0.99, rate(rpc_bucket[5m])) > 0.95"
    /\ eenhanced.Description = "95th percentile (95th of requests are faster)"

C19_WitnessHTTPBeforeError ==
    /\ Enhanced
    /\ emetric = "http_errors_total"
    /\ esuggestion.Query = "rate(http_errors_total[5m])"
    /\ esuggestion.Description = "Rate per second"
    /\ eenhanced.Description = "HTTP rate per second"

\* C20: when the query has rate( and [5m] and the name has request or http,
\* every [5m] of the query has become [2m]; otherwise no [5m] has; a query
\* without histogram_quantile is returned as it was apart from that
\* replacement; no [1h] is ever rewritten.
C20_RangeRule ==
    Enhanced =>
        LET query == esuggestion.Query
            out == eenhanced.Query
        IN /\ RangeRuleApplies =>
                /\ ~Contains(out, "[5m]")
                /\ Count(out, "[2m]") = Count(query, "[2m]") + Count(query, "[5m]")
           /\ ~RangeRuleApplies =>
                /\ Count(out, "[5m]") = Count(query, "[5m]")
                /\ Count(out, "[2m]") = Count(query, "[2m]")
           /\ ~Contains(query, "histogram_quantile") => out = RangeRuleOnly
           /\ Count(out, "[1h]") = Count(query, "[1h]")

C20_Witness ==
    /\ Enhanced
    /\ emetric = "http_requests_total"
    /\ esuggestion.Query =
          "rate(http_requests_total{status=~\"5..\"}[5m]) / rate(http_requests_total[5m])"
    /\ eenhanced.Query =
          "rate(http_requests_total{status=~\"5..\"}[2m]) / rate(http_requests_total[2m])"

C20_WitnessOtherName ==
    /\ Enhanced
    /\ emetric = "memory_usage"
    /\ esuggestion.Query = "rate(memory_usage[5m])"
    /\ eenhanced.Query = "rate(memory_usage[5m])"

C20_WitnessHourKept ==
    /\ Enhanced
    /\ emetric = "request_size_bucket"
    /\ esuggestion.Query = "rate(request_size_bucket[5m]) + increase(request_size_bucket[1h])"
    /\ eenhanced.Query = "rate(request_size_bucket[2m]) + increase(request_size_bucket[1h])"

C20_WitnessNoRate ==
    /\ Enhanced
    /\ emetric = "http_requests_total"
    /\ esuggestion.Query = "increase(http_requests_total[5m])"
    /\ eenhanced.Query = esuggestion.Query

\* C21: the visualization returned is "timeseries" for a query with
\* histogram_quantile; else "stat" for a query with avg( and without
\* over_time; else "stat" for a query with max( or min(; else "gauge" for a
\* name with ratio or percent; else the suggestion's own visualization.  The
\* tests read the query the suggestion came with.  One of the four known
\* types goes in, one of them comes out.
C21_VisualizationFirstMatch ==
    Enhanced =>
        LET query == esuggestion.Query IN
        /\ eenhanced.VisualizationType =
              (IF Contains(query, "histogram_quantile") THEN "timeseries"
               ELSE IF Contains(query, "avg(") /\ ~Contains(query, "over_time")
               THEN "stat"
               ELSE IF Contains(query, "max(") \/ Contains(query, "min(") THEN "stat"
               ELSE IF Contains(emetric, "ratio") \/ Contains(emetric, "percent")
               THEN "gauge"
               ELSE esuggestion.VisualizationType)
        /\ esuggestion.VisualizationType \in VisualizationTypes
              => eenhanced.VisualizationType \in VisualizationTypes

\* "http_duration_bucket" has "ratio" in it.
C21_Witness ==
    /\ Enhanced
    /\ emetric = "http_duration_bucket"
    /\ esuggestion.Query = "rate(http_duration_bucket[5m])"
    /\ esuggestion.VisualizationType = "table"
    /\ eenhanced.VisualizationType = "gauge"

C21_WitnessQuantileFirst ==
    /\ Enhanced
    /\ emetric = "disk_percent_used"
    /\ esuggestion.Query = QuantileQuery("0.95", "disk_percent_used", "5m")
    /\ esuggestion.VisualizationType = "table"
    /\ eenhanced.VisualizationType = "timeseries"

C21_WitnessOverTime ==
    /\ Enhanced
    /\ emetric = "queue_depth"
    /\ esuggestion.Query = "avg(avg_over_time(queue_depth[5m]))"
    /\ esuggestion.VisualizationType = "table"
    /\ eenhanced.VisualizationType = "table"

C21_WitnessMaxOverTime ==
    /\ Enhanced
    /\ emetric = "queue_depth"
    /\ esuggestion.Query = "max(avg_over_time(queue_depth[5m]))"
    /\ esuggestion.VisualizationType = "timeseries"
    /\ eenhanced.VisualizationType = "stat"

(***************************************************************************)
(* Properties of the contextual queries and of the remaining generators    *)
(***************************************************************************)

\* The part of the enhanced list after the enhanced copies.
ContextualPart == SubSeq(enhanced, Len(suggestions) + 1, Len(enhanced))

\* The query, description and visualization of each element of a list.
Shown(list) ==
    [i \in 1..Len(list) |->
        <<list[i].Query, list[i].Description, list[i].VisualizationType>>]

\* C22: the contextual queries follow from the name and the type alone: for
\* a counter with "request" in its name the 5xx ratio then the 2xx ratio;
\* for a counter with "error" or "fail" the hourly increase alert; for a
\* gauge with "cpu" the usage alert; for a gauge with "memory" the usage in
\* GB; in this order and nothing else.  Other types get none, so the
\* enhanced list is as long as the input; there are never more than three.
C22_ContextualQueries ==
    stage \in {"enhanced", "selected"} =>
        LET n == metricInfo.Name
            counter == metricInfo.Type = "counter"
            gauge == metricInfo.Type = "gauge"
        IN /\ Shown(ContextualPart) =
                (IF counter /\ Contains(n, "request")
                 THEN << <<"rate(" \o n \o "{status=~\"5..\"}[5m]) / rate(" \o n \o "[5m])",
                           "Error rate (5xx responses)", "timeseries">>,
                         <<"rate(" \o n \o "{status=~\"2..\"}[5m]) / rate(" \o n \o "[5m])",
                           "Success rate (2xx responses)", "stat">> >>
                 ELSE <<>>)
                \o (IF counter /\ (Contains(n, "error") \/ Contains(n, "fail"))
                    THEN << <<"increase(" \o n \o "[1h]) > 10",
                              "High error count alert (>10/hour)", "table">> >>
                    ELSE <<>>)
                \o (IF gauge /\ Contains(n, "cpu")
                    THEN << <<"(" \o n \o " > 80)", "High CPU usage alert (>80%)",
                              "table">> >>
                    ELSE <<>>)
                \o (IF gauge /\ Contains(n, "memory")
                    THEN << <<"(" \o n \o " / 1024 / 1024 / 1024)", "Memory usage in GB",
                              "timeseries">> >>
                    ELSE <<>>)
           /\ Len(ContextualPart) <= 3
           /\ ~counter /\ ~gauge => Len(enhanced) = Len(suggestions)

C22_Witness ==
    /\ stage = "enhanced"
    /\ metricInfo.Name = "request_errors_total"
    /\ metricInfo.Type = "counter"
    /\ Len(ContextualPart) = 3
    /\ ContextualPart[3].Query = "increase(request_errors_total[1h]) > 10"

C22_WitnessHistogram ==
    /\ stage = "enhanced"
    /\ metricInfo.Name = "request_errors_bucket"
    /\ metricInfo.Type = "histogram"
    /\ Len(suggestions) > 0
    /\ Len(enhanced) = Len(suggestions)

C22_WitnessGauge ==
    /\ stage = "enhanced"
    /\ metricInfo.Name = "memory_usage"
    /\ metricInfo.Type = "gauge"
    /\ Len(ContextualPart) = 1
    /\ ContextualPart[1].Query = "(memory_usage / 1024 / 1024 / 1024)"

C22_WitnessFail ==
    /\ stage = "enhanced"
    /\ metricInfo.Name = "job_failures_total"
    /\ metricInfo.Type = "counter"
    /\ Shown(ContextualPart) =
          << <<"increase(job_failures_total[1h]) > 10",
               "High error count alert (>10/hour)", "table">> >>

\* The query and the visualization of each element of a list.
QueriesShown(list) ==
    [i \in 1..Len(list) |-> <<list[i].Query, list[i].VisualizationType>>]

\* C23: a gauge yields <name> and avg_over_time(<name>[1h]) as timeseries;
\* exactly when it has labels, reserved or not, avg, max and min of <name>
\* follow as stat, and then one avg by (<label>) (<name>) per label not
\* starting with "__", in label order.
C23_GaugeQueries ==
    stage = "generated" /\ metricInfo.Type = "gauge" =>
        LET n == metricInfo.Name
            groupable == NonReserved(metricInfo.Labels)
        IN QueriesShown(suggestions) =
              << <<n, "timeseries">>, <<"avg_over_time(" \o n \o "[1h])", "timeseries">> >>
              \o (IF metricInfo.Labels # <<>>
                  THEN << <<"avg(" \o n \o ")", "stat">>, <<"max(" \o n \o ")", "stat">>,
                          <<"min(" \o n \o ")", "stat">> >>
                       \o [i \in 1..Len(groupable) |->
                              <<"avg by (" \o groupable[i] \o ") (" \o n \o ")",
                                "timeseries">>]
                  ELSE <<>>)

\* Every label is reserved: the aggregates are there, no grouping is.
C23_Witness ==
    /\ stage = "generated"
    /\ metricInfo.Type = "gauge"
    /\ metricInfo.Labels = <<"__meta", "__name__">>
    /\ Len(suggestions) = 5
    /\ suggestions[5].Query = "min(" \o metricInfo.Name \o ")"

C23_WitnessNoLabels ==
    /\ stage = "generated"
    /\ metricInfo.Type = "gauge"
    /\ metricInfo.Name = "memory_usage"
    /\ metricInfo.Labels = <<>>
    /\ Len(suggestions) = 2

C23_WitnessGrouped ==
    /\ stage = "generated"
    /\ metricInfo.Type = "gauge"
    /\ metricInfo.Name = "memory_usage"
    /\ metricInfo.Labels = <<"method", "status">>
    /\ Len(suggestions) = 7
    /\ suggestions[6].Query = "avg by (method) (memory_usage)"
    /\ suggestions[7].Query = "avg by (status) (memory_usage)"

\* The type is none of the four the generator has a case for.
DefaultType ==
    metricInfo.Type \notin {"counter", "gauge", "histogram", "summary"}

\* C24: for a type outside counter, gauge, histogram and summary, a name
\* ending in _total or containing _count, requests or errors gets the list
\* of the counter generator for the same name and labels; any other name
\* gets <name> then rate(<name>[5m]) whatever the labels.  The names that
\* fall back are those inferMetricType calls a counter.
C24_DefaultFallsBackToCounter ==
    stage = "generated" /\ DefaultType =>
        LET n == metricInfo.Name IN
        /\ MatchesCounterRule(n) =>
              suggestions = generateCounterQueries(metricInfo)
        /\ ~MatchesCounterRule(n) =>
              /\ Len(suggestions) = 2
              /\ QueriesShown(suggestions) =
                    << <<n, "timeseries">>, <<"rate(" \o n \o "[5m])", "timeseries">> >>
        /\ (suggestions[1].Query = "rate(" \o n \o "[5m])")
              = (inferMetricType(n) = "counter")

C24_Witness ==
    /\ stage = "generated"
    /\ metricInfo.Type = "info"
    /\ metricInfo.Name = "http_requests_total"
    /\ metricInfo.Labels = <<"method">>
    /\ Len(suggestions) = 3
    /\ suggestions[3].Query = "sum by (method) (rate(http_requests_total[5m]))"

C24_WitnessDefault ==
    /\ stage = "generated"
    /\ metricInfo.Type = "unknown"
    /\ metricInfo.Name = "api_latency"
    /\ metricInfo.Labels = <<"method", "status">>
    /\ Len(suggestions) = 2
    /\ suggestions[1].Query = "api_latency"

(***************************************************************************)
(* Properties of the panels made from metric names                         *)
(***************************************************************************)

\* The string entries of metric_names the panel loop has read, in order.
NamesRead ==
    IF dargs.metric_names.kind # "array" THEN <<>>
    ELSE LET read == SubSeq(dargs.metric_names.elems, 1, dindex)
             strings == SelectSeq(read, LAMBDA e : e.kind = "string")
         IN [i \in 1..Len(strings) |-> strings[i].str]

\* The positions in dcalls of the metadata fetches, in order.
FetchPositions ==
    LET at == {i \in DOMAIN dcalls : dcalls[i].op = "GetMetricMetadata"} IN
    [k \in 1..Cardinality(at) |->
        CHOOSE i \in at : Cardinality({j \in at : j <= i}) = k]

\* The calls made for the k-th name read: its fetch and what follows it up
\* to the next fetch or to the call on Grafana.
CallsFor(k) ==
    LET from == FetchPositions[k]
        next == IF k < Len(FetchPositions) THEN FetchPositions[k + 1]
                ELSE Len(dcalls) + 1
        upto == IF dcalls[next - 1].op = "CreateDashboard" THEN next - 2 ELSE next - 1
    IN SubSeq(dcalls, from, upto)

NoPanelsError ==
    "failed to generate panels from metrics: no valid panels could be generated from the provided metric names"

\* C25: every string entry of metric_names read gives one panel, in input
\* order, whatever Prometheus answers.  A failed fetch gives the panel
\* titled with the name whose only target is "A" on the name; a rejected
\* best query leaves target "A" on the name in its place.  The flow fails
\* only when it has made no panel.
C25_PanelPerMetric ==
    dpc \in {"generating", "returned"} =>
        /\ Len(dpanels) = Len(NamesRead)
        /\ Len(FetchPositions) = Len(NamesRead)
        /\ \A k \in 1..Len(NamesRead) :
              LET name == NamesRead[k]
                  made == CallsFor(k)
                  panel == dpanels[k]
              IN /\ made[1].subject = name
                 /\ panel.targets[1].refId = "A"
                 /\ IF made[1].err # ""
                    THEN /\ Len(made) = 1
                         /\ panel.title = name
                         /\ panel.targets = << Target("A", name) >>
                    ELSE /\ Len(made) >= 2
                         /\ made[2].op = "ValidateQuery"
                         /\ HasPrefix(panel.title, name \o " - ")
                         /\ panel.targets[1].expr =
                               (IF made[2].err # "" THEN name ELSE made[2].subject)
        /\ dpc = "returned" /\ dindex > 0 =>
              /\ (dretErr = NoPanelsError) = (dpanels = <<>>)
              /\ ~deployRequested(dargs) /\ dpanels # <<>> =>
                    /\ dretErr = ""
                    /\ Len(ddoc.dashboard.panels) = Len(dpanels)
                    /\ \A k \in 1..Len(dpanels) :
                          /\ ddoc.dashboard.panels[k].title = dpanels[k].title
                          /\ ddoc.dashboard.panels[k].targets = dpanels[k].targets

\* The first fetch failed, the second gave a best query that was rejected.
C25_Witness ==
    /\ dpc = "returned"
    /\ dretErr = ""
    /\ NamesRead = <<"api_latency", "api_latency">>
    /\ Len(dpanels) = 2
    /\ Len(dcalls) >= 3
    /\ dcalls[1].err # ""
    /\ dpanels[1].targets = << Target("A", "api_latency") >>
    /\ dcalls[3].op = "ValidateQuery" /\ dcalls[3].err # ""
    /\ dpanels[2].title # "api_latency"
    /\ dpanels[2].targets[1].expr = "api_latency"
    /\ Len(dpanels[2].targets) > 1

C25_WitnessNoPanel ==
    /\ dpc = "returned"
    /\ dargs.metric_names = JArray(<<JNumber, JNumber>>)
    /\ dpanels = <<>>
    /\ dretErr = NoPanelsError

C25_WitnessSkipped ==
    /\ dpc = "returned"
    /\ dargs.metric_names = JArray(<<JNumber, JString("api_latency")>>)
    /\ Len(dpanels) = 1
    /\ dretErr = ""

\* The refId of the additional target taken from position j of the ranked
\* list, the best query being at position 0.
PositionLetter(j) == <<"B", "C", "D">>[j]

\* C26: in the panel of a metric whose metadata was fetched, the first
\* target is "A"; every further target is the suggestion at position 1, 2
\* or 3 of the enhanced list, its validation passed, lettered "B", "C" or
\* "D" by that position; no suggestion at position 4 or later is validated
\* or bound; the refIds of a panel differ and it has at most 4 targets.
C26_AdditionalTargets ==
    dpc \in {"generating", "returned"} /\ dpanels # <<>> /\ dsuggestions # <<>> =>
        LET targets == dpanels[Len(dpanels)].targets
            made == CallsFor(Len(dpanels))
            last == IF Len(dsuggestions) - 1 < 3 THEN Len(dsuggestions) - 1 ELSE 3
        IN /\ targets[1].refId = "A"
           /\ Len(targets) <= 4
           /\ Len(made) = 2 + last
           /\ \A j \in 1..last : made[j + 2].subject = dsuggestions[j + 1].Query
           /\ \A t \in 2..Len(targets) :
                 \E j \in 1..last :
                    /\ targets[t].refId = PositionLetter(j)
                    /\ targets[t].expr = dsuggestions[j + 1].Query
                    /\ targets[t].legendFormat = dsuggestions[j + 1].Description
                    /\ made[j + 2].err = ""
           /\ \A j \in 1..last :
                 made[j + 2].err = ""
                    => \E t \in 2..Len(targets) : targets[t].refId = PositionLetter(j)
           /\ \A t, u \in 1..Len(targets) :
                 t # u => targets[t].refId # targets[u].refId

\* Five suggestions, the one at position 2 rejected: targets A, B and D,
\* the suggestion at position 4 not bound.
C26_Witness ==
    /\ dpc = "generating"
    /\ Len(dsuggestions) = 5
    /\ Len(dpanels) = 1
    /\ Len(dpanels[1].targets) = 3
    /\ dpanels[1].targets[2].refId = "B"
    /\ dpanels[1].targets[3].refId = "D"
    /\ dpanels[1].targets[3].expr = dsuggestions[4].Query
    /\ \A t \in 1..3 : dpanels[1].targets[t].expr # dsuggestions[5].Query

C26_WitnessFour ==
    /\ dpc = "returned"
    /\ Len(dsuggestions) = 5
    /\ Len(dpanels[Len(dpanels)].targets) = 4
    /\ dpanels[Len(dpanels)].targets[4].refId = "D"

\* The suggestions at positions 1 and 3 rejected: targets A and C.
C26_WitnessOnlyC ==
    /\ dpc = "generating"
    /\ Len(dsuggestions) = 5
    /\ Len(dpanels) = 1
    /\ Len(dpanels[1].targets) = 2
    /\ dpanels[1].targets[2].refId = "C"
    /\ dpanels[1].targets[2].expr = dsuggestions[3].Query

(***************************************************************************)
(* Properties of the order of the handler's Prometheus calls               *)
(***************************************************************************)

\* The calls a step of the handler adds to the log.
NewCalls == SubSeq(calls', Len(calls) + 1, Len(calls'))

\* C27: GeneratePromqlQueriesHandler works through the metric names one at a
\* time.  At every moment of a valid call there is exactly one metadata
\* fetch per result appended so far, the i-th fetch being for the i-th
\* string-typed name; a failed fetch is followed in the log by the next
\* metric's fetch or by nothing (no retry, no generation), a successful one
\* by exactly one generation on the metadata it returned, and no generation
\* occurs anywhere else.  Every step that calls Prometheus starts with the
\* fetch for the name right after the results already appended and appends
\* that name's result in the same step.
C27_SequentialFetches ==
    /\ [](ValidCall /\ hpc \in {"loop", "returned"} =>
            /\ Len(Fetches) = Len(results)
            /\ Len(results) <= Len(StringNames)
            /\ \A i \in 1..Len(Fetches) : Fetches[i].metric = StringNames[i]
            /\ \A j \in 1..Len(calls) :
                  IF calls[j].op = "GetMetricMetadata"
                  THEN IF calls[j].err = ""
                       THEN /\ j < Len(calls)
                            /\ calls[j + 1] = GenerateCall(prometheusURL,
                                                  calls[j].metric, calls[j].info)
                       ELSE j < Len(calls) => calls[j + 1].op = "GetMetricMetadata"
                  ELSE /\ calls[j].op = "GenerateQueries"
                       /\ j > 1
                       /\ calls[j - 1].op = "GetMetricMetadata"
                       /\ calls[j - 1].err = "")
    /\ [][calls' # calls =>
            /\ Len(calls') > Len(calls)
            /\ SubSeq(calls', 1, Len(calls)) = calls
            /\ NewCalls[1].op = "GetMetricMetadata"
            /\ NewCalls[1].metric = StringNames[Len(results) + 1]
            /\ Len(SelectSeq(NewCalls, LAMBDA c : c.op = "GetMetricMetadata")) = 1
            /\ results' = Append(results, results'[Len(results')])
            /\ results'[Len(results')].MetricName = NewCalls[1].metric]_vars

\* Two names, the first fetch failed and the second succeeded: three calls,
\* fetch, fetch, generation.
C27_Witness ==
    /\ hpc = "returned"
    /\ ValidCall
    /\ Len(StringNames) = 2
    /\ Len(calls) = 3
    /\ calls[1].op = "GetMetricMetadata" /\ calls[1].err # ""
    /\ calls[2].op = "GetMetricMetadata" /\ calls[2].err = ""
    /\ calls[2].metric = StringNames[2]
    /\ calls[3].op = "GenerateQueries"

\* A non-string entry followed by a name: the only fetch is for the
\* string-typed name.
C27_WitnessSkipsNonString ==
    /\ hpc = "returned"
    /\ ValidCall
    /\ Len(args.metric_names.elems) = 2
    /\ args.metric_names.elems[1].kind # "string"
    /\ Len(Fetches) = 1
    /\ Fetches[1].metric = args.metric_names.elems[2].str

(***************************************************************************)
(* The exported enhancer against the unexported one                        *)
(***************************************************************************)

\* The metric the enhancer was called on.
EnhancerMetric == MetricInfo(emetric, inferMetricType(emetric), "", <<>>)

\* The suggestion list the two enhancers are compared on besides the single
\* suggestion: the generator's suggestions followed by the given one.
EnhancerList == Append(generateQueries(EnhancerMetric), esuggestion)

\* C28: for the same metric and the same suggestions the exported
\* LLMQueryEnhancer.EnhanceQueries and the unexported
\* llmQueryEnhancer.enhanceQueries return the same sequence: on the empty
\* list, on the single suggestion of the call (where the first element is
\* also what enhanceQuery returned) and on the generator's list followed by
\* that suggestion.
C28_ExportedEnhancerAgrees ==
    epc = "returned" =>
        /\ LLMQueryEnhancer_EnhanceQueries(EnhancerMetric, <<>>)
              = enhanceQueries(EnhancerMetric, <<>>)
        /\ LLMQueryEnhancer_EnhanceQueries(EnhancerMetric, <<esuggestion>>)
              = enhanceQueries(EnhancerMetric, <<esuggestion>>)
        /\ LLMQueryEnhancer_EnhanceQueries(EnhancerMetric, <<esuggestion>>)[1] = eenhanced
        /\ LLMQueryEnhancer_EnhanceQueries(EnhancerMetric, EnhancerList)
              = enhanceQueries(EnhancerMetric, EnhancerList)

\* A request counter: the suggestion is rewritten and two contextual queries
\* follow it.
C28_Witness ==
    /\ epc = "returned"
    /\ emetric = "http_requests_total"
    /\ eenhanced.Query # esuggestion.Query
    /\ eenhanced.Description # esuggestion.Description
    /\ Len(LLMQueryEnhancer_EnhanceQueries(EnhancerMetric, <<esuggestion>>)) = 3

\* The histogram rewrite applied by both.
C28_WitnessHistogram ==
    /\ epc = "returned"
    /\ Contains(eenhanced.Query, "by (le)")
    /\ ~Contains(esuggestion.Query, "by (le)")
    /\ LLMQueryEnhancer_optimizeQuery(EnhancerMetric, esuggestion.Query) = eenhanced.Query

(***************************************************************************)
(* Properties of the chain generate, enhance, select                       *)
(***************************************************************************)

\* The suggestion getBestQuery returns for an empty list.
FallbackQuery == QuerySuggestion("up", "Default query", "timeseries", "value")

\* C29: whatever MetricInfo the fetch returned, the generator's list is not
\* empty, so the "no suggestions" branches that follow a generation are
\* never taken; and when the generator's list is enhanced and the best
\* query selected, the enhanced list is not empty, its first element is the
\* enhanced copy of the generator's first suggestion (the contextual
\* queries come after the copies), the selected query is that element, and
\* it is not the fallback of getBestQuery.
C29_ChainSelectsGeneratorsFirst ==
    /\ stage = "generated" =>
          /\ suggestions = generateQueries(metricInfo)
          /\ Len(suggestions) # 0
    /\ stage \in {"enhanced", "selected"} =>
          /\ suggestions = generateQueries(metricInfo)
          /\ suggestions # <<>>
          /\ Len(enhanced) >= Len(suggestions)
          /\ enhanced[1] = enhanceQuery(metricInfo, generateQueries(metricInfo)[1])
          /\ \A c \in 1..Len(generateContextualQueries(metricInfo)) :
                enhanced[Len(suggestions) + c] = generateContextualQueries(metricInfo)[c]
    /\ stage = "selected" =>
          /\ best = enhanced[1]
          /\ best = enhanceQuery(metricInfo, generateQueries(metricInfo)[1])
          /\ best # FallbackQuery
          /\ best.Description # FallbackQuery.Description

\* A request counter: contextual queries were added, the selected query is
\* the rewritten rate of the generator's first suggestion.
C29_Witness ==
    /\ stage = "selected"
    /\ metricInfo.Name = "http_requests_total"
    /\ metricInfo.Type = MetricTypeCounter
    /\ suggestions # <<>>
    /\ Len(enhanced) > Len(suggestions)
    /\ suggestions[1].Query = "rate(http_requests_total[5m])"
    /\ best.Query = "rate(http_requests_total[2m])"

\* The metric named up: the selected query reads "up" and is the
\* generator's raw query, not the fallback.
C29_WitnessUp ==
    /\ stage = "selected"
    /\ metricInfo.Name = "up"
    /\ suggestions # <<>>
    /\ best.Query = "up"
    /\ best # FallbackQuery

(***************************************************************************)
(* Properties of the results of GeneratePromqlQueriesHandler               *)
(***************************************************************************)

NoSuggestionsError == "no query suggestions could be generated"

\* C30: every result of the response is either failed, with a non-empty
\* error and no suggestions, or successful, with an empty error and at
\* least one suggestion.  The result of a failed metadata fetch has an
\* empty type, help and label list.  With the generator of the package the
\* error "no query suggestions could be generated" is in no result; the
\* result the handler builds from an empty suggestion list, for the metadata
\* of any successful fetch, has that error, no suggestions and the fetched
\* type, help and labels.
C30_ResultStates ==
    \A i \in 1..Len(results) :
        LET res == results[i]
            fetch == Fetches[i]
        IN /\ \/ res.Error # "" /\ res.Suggestions = <<>>
              \/ res.Error = "" /\ Len(res.Suggestions) >= 1
           /\ res.MetricName = fetch.metric
           /\ fetch.err # "" =>
                 /\ res.Error = "failed to get metadata: " \o fetch.err
                 /\ res.MetricType = ""
                 /\ res.MetricHelp = ""
                 /\ res.Labels = <<>>
           /\ fetch.err = "" =>
                 /\ res.Error = ""
                 /\ res.MetricType = fetch.info.Type
                 /\ res.MetricHelp = fetch.info.Help
                 /\ res.Labels = fetch.info.Labels
                 /\ SuggestionsResult(res.MetricName, fetch.info, <<>>)
                       = [res EXCEPT !.Suggestions = <<>>, !.Error = NoSuggestionsError]
           /\ res.Error # NoSuggestionsError

\* One failed result and one successful result in the same response, the
\* successful one with the type, help and a label of its fetch.
C30_Witness ==
    /\ hpc = "returned"
    /\ Len(results) = 2
    /\ results[1].Error # "" /\ results[1].Suggestions = <<>>
    /\ results[1].MetricType = "" /\ results[1].Labels = <<>>
    /\ results[2].Error = "" /\ Len(results[2].Suggestions) >= 2
    /\ results[2].MetricType = MetricTypeSummary
    /\ results[2].MetricHelp = MetadataHelp
    /\ results[2].Labels # <<>>

====
